---- MODULE Spec2Model ----
(***************************************************************************)
(* State-machine model of the transcript pipeline of agent_loop.py:        *)
(*   AgentLoop.chunk_transcript   (the windower)                           *)
(*   AgentLoop.process_transcript (chunk -> bounded fan-out of extraction  *)
(*                                 -> flatten -> bounded fan-out of        *)
(*                                 verification -> filter)                 *)
(* Times are whole seconds.  Python lists are sequences (1-based here, so  *)
(* the k-th element of a Python list is element k+1).  A Python str is a   *)
(* sequence of one-character strings where the code looks inside it        *)
(* (fragment and chunk texts) and a sequence of tokens where it only       *)
(* concatenates (verification_result).                                     *)
(***************************************************************************)
EXTENDS Integers, Sequences, FiniteSets, TLC

(***************************************************************************)
(* Bounds of the model.                                                    *)
(***************************************************************************)
MaxFrags == 2        \* fragments of a stream given to the windower alone
MaxStart == 2        \* largest fragment start
MaxDuration == 2     \* largest fragment duration
MaxSpan == 1         \* largest chunk_size_seconds given to the windower alone
MaxChunks == 2       \* chunks of a transcript given to process_transcript
MaxLimit == 2        \* largest max_parallel_extractions / _verifications

(***************************************************************************)
(* Python values.                                                          *)
(***************************************************************************)
None == <<>>                 \* Optional[float]: None, or Some(x)
Some(x) == <<x>>
Val(o) == o[1]

MaxLatest(a, b) == b

Max(a, b) == IF a >= b THEN a ELSE b

RECURSIVE LStrip(_)
LStrip(s) == IF s # <<>> /\ Head(s) = " " THEN LStrip(Tail(s)) ELSE s

RECURSIVE RStrip(_)
RStrip(s) ==
    IF s # <<>> /\ s[Len(s)] = " " THEN RStrip(SubSeq(s, 1, Len(s) - 1)) ELSE s

StripNothing(s) == s

\* str.strip() over the whitespace the model has (the space)
Strip(s) == RStrip(LStrip(s))

\* " ".join(parts)
RECURSIVE Join(_)
Join(parts) ==
    IF parts = <<>> THEN <<>>
    ELSE IF Len(parts) = 1 THEN parts[1]
    ELSE parts[1] \o <<" ">> \o Join(Tail(parts))

VARIABLES
    \* AgentLoop fields (set by __init__)
    chunk_size_seconds,
    max_parallel_extractions,
    max_parallel_verifications,
    \* the call's arguments
    transcript_raw,
    video_id,
    \* chunk_transcript's locals while it is stepped fragment by fragment
    cpc,                    \* "idle" | "loop" | "returned"
    next_item,              \* index of the fragment the for loop takes next
    win,                    \* chunks, current_chunk_text, current_start,
                            \* current_end, chunk_id
    \* process_transcript's locals
    pc,                     \* "idle" | "start" | "extracting" | "verifying"
                            \* | "done" | "raised"
    video_context,
    summary_context,
    chunks,
    semaphore_extract,
    extraction_tasks,       \* position of each extract_with_semaphore task
    extractor_calls,        \* what extraction_agent.aextract did, per chunk
    extraction_results,
    all_claims,
    total_claims_by_chunk,
    extraction_failures,    \* times the "extraction failed" branch ran
    semaphore_verify,
    verification_tasks,     \* position of each verify_with_semaphore task
    verifier_calls,         \* what verification_orchestrator.verify_claim did
    verified_claims,
    verification_failures,  \* times the "Verification failed" branch ran
    final_results,
    \* the locals of a second call of process_transcript that runs on the same
    \* AgentLoop and event loop, interleaved with this one
    other,
    \* api_server: the ConnectionManager `manager`
    active_connections,     \* dict session_id -> WebSocket
    processing_sessions,    \* dict session_id -> session record
    \* what was called on the manager, for stating its properties
    created,                \* ids given to create_session and not to
                            \* disconnect since
    last_call,              \* the last call: its name and its session_id
    \* api_server: the background work
    pipelines,              \* session_id -> locals of process_video_pipeline
    verifications,          \* the verify_single_claim tasks, in creation order
    outbox,                 \* session_id -> the messages send_json was given
                            \* on the session's current websocket
    \* ClaimVerificationOrchestrator.verify_claim's locals
    vpc,                    \* "idle" | "start" | "gathering" | "synthesising"
                            \* | "returned"
    specialists,            \* what each specialist's verify did so far
    agent_results,
    synthesis,              \* the calls of orchestrator.verify: their number
                            \* and the findings the last one was given
    \* ClaimExtractionAgent.aextract's locals
    apc,                    \* "idle" | "awaiting" | "returned"
    chain_result,           \* the claims of the chain's ExtractionOutput
    unique_claims           \* the claims of the ExtractionOutput returned

\* what no step of this call of process_transcript or chunk_transcript
\* writes: the AgentLoop's fields, the call's arguments, the other call
managervars == <<active_connections, processing_sessions, created, last_call>>
servervars == <<managervars, pipelines, verifications, outbox>>
orchvars == <<vpc, specialists, agent_results, synthesis>>
agentvars == <<apc, chain_result, unique_claims>>
cfgvars == <<chunk_size_seconds, max_parallel_extractions,
             max_parallel_verifications, transcript_raw, video_id, other,
             servervars, orchvars, agentvars>>
winvars == <<cpc, next_item, win>>
extractvars == <<chunks, semaphore_extract, extraction_tasks, extractor_calls,
                 extraction_results, all_claims, total_claims_by_chunk,
                 extraction_failures>>
verifyvars == <<semaphore_verify, verification_tasks, verifier_calls,
                verified_claims, verification_failures, final_results>>
vars == <<cfgvars, winvars, pc, video_context, summary_context,
          extractvars, verifyvars>>

(***************************************************************************)
(* AgentLoop.chunk_transcript                                              *)
(***************************************************************************)
TranscriptChunk(id, start, end, text, vid) ==
    [chunk_id |-> id, start_s |-> start, end_s |-> end, text |-> text,
     video_id |-> vid]

\* lines 92-96: the locals before the loop
WindowInit ==
    [chunks |-> <<>>, current_chunk_text |-> <<>>, current_start |-> None,
     current_end |-> None, chunk_id |-> 0]

\* line 117: the split test
ExceedsChunkSizeGe(potential_duration, current_chunk_text) ==
    potential_duration >= chunk_size_seconds /\ current_chunk_text # <<>>

ExceedsChunkSizeNever(potential_duration, current_chunk_text) == FALSE

\* as ExceedsChunkSize, with twice the span
ExceedsChunkSizeTwice(potential_duration, current_chunk_text) ==
    potential_duration > 2 * chunk_size_seconds /\ current_chunk_text # <<>>

ExceedsChunkSize(potential_duration, current_chunk_text) ==
    potential_duration > chunk_size_seconds /\ current_chunk_text # <<>>

CloseChunkIdZero(w) ==
    TranscriptChunk(0, Val(w.current_start), Val(w.current_end),
                    Join(w.current_chunk_text), video_id)

\* lines 119-125 and 139-145: the chunk built from the accumulator
CloseChunk(w) ==
    TranscriptChunk(w.chunk_id, Val(w.current_start), Val(w.current_end),
                    Join(w.current_chunk_text), video_id)

\* as LoopBody, but a fragment that joins the open chunk replaces its texts
LoopBodyLosesText(w, item) ==
    LET start == item.start
        duration == item.duration
        end == start + duration
        text == Strip(item.text)
    IN  IF text = <<>> THEN w
        ELSE IF w.current_start = None
        THEN [w EXCEPT !.current_start = Some(start),
                       !.current_end = Some(end),
                       !.current_chunk_text = <<text>>]
        ELSE LET potential_duration == end - Val(w.current_start)
             IN  IF ExceedsChunkSize(potential_duration, w.current_chunk_text)
                 THEN [chunks |-> Append(w.chunks, CloseChunk(w)),
                       chunk_id |-> w.chunk_id + 1,
                       current_start |-> Some(start),
                       current_end |-> Some(end),
                       current_chunk_text |-> <<text>>]
                 ELSE [w EXCEPT !.current_chunk_text = <<text>>,
                                !.current_end = Some(Max(Val(@), end))]

\* as LoopBody, without the `if not text: continue` of lines 104-105
LoopBodyBlankOpens(w, item) ==
    LET start == item.start
        duration == item.duration
        end == start + duration
        text == Strip(item.text)
    IN  IF w.current_start = None
        THEN [w EXCEPT !.current_start = Some(start),
                       !.current_end = Some(end),
                       !.current_chunk_text = <<text>>]
        ELSE LET potential_duration == end - Val(w.current_start)
             IN  IF ExceedsChunkSize(potential_duration, w.current_chunk_text)
                 THEN [chunks |-> Append(w.chunks, CloseChunk(w)),
                       chunk_id |-> w.chunk_id + 1,
                       current_start |-> Some(start),
                       current_end |-> Some(end),
                       current_chunk_text |-> <<text>>]
                 ELSE [w EXCEPT !.current_chunk_text = Append(@, text),
                                !.current_end = Some(Max(Val(@), end))]

\* lines 99-135: one iteration of the for loop
LoopBody(w, item) ==
    LET start == item.start
        duration == item.duration
        end == start + duration
        text == Strip(item.text)
    IN  IF text = <<>> THEN w
        ELSE IF w.current_start = None
        THEN [w EXCEPT !.current_start = Some(start),
                       !.current_end = Some(end),
                       !.current_chunk_text = <<text>>]
        ELSE LET potential_duration == end - Val(w.current_start)
             IN  IF ExceedsChunkSize(potential_duration, w.current_chunk_text)
                 THEN [chunks |-> Append(w.chunks, CloseChunk(w)),
                       chunk_id |-> w.chunk_id + 1,
                       current_start |-> Some(start),
                       current_end |-> Some(end),
                       current_chunk_text |-> <<text>>]
                 ELSE [w EXCEPT !.current_chunk_text = Append(@, text),
                                !.current_end = Some(Max(Val(@), end))]

\* lines 137-147: the final chunk and the returned list
LoopExit(w) ==
    IF w.current_chunk_text # <<>> /\ w.current_start # None
    THEN Append(w.chunks, CloseChunk(w))
    ELSE w.chunks

RECURSIVE RunLoop(_, _)
RunLoop(w, items) ==
    IF items = <<>> THEN w ELSE RunLoop(LoopBody(w, Head(items)), Tail(items))

\* the whole function, as process_transcript calls it (line 231)
chunk_transcript(transcript) == LoopExit(RunLoop(WindowInit, transcript))


(***************************************************************************)
(* api_server.ConnectionManager: the methods as functions of the two       *)
(* dicts.                                                                  *)
(***************************************************************************)
\* del d[key]
Del(d, key) == [x \in (DOMAIN d) \ {key} |-> d[x]]

\* d.update(updates)
Update(d, updates) ==
    [k \in (DOMAIN d) \cup (DOMAIN updates) |->
        IF k \in DOMAIN updates THEN updates[k] ELSE d[k]]

\* lines 52-54: the connections afterwards
connect(connections, websocket, session_id) ==
    [x \in (DOMAIN connections) \cup {session_id} |->
        IF x = session_id THEN websocket ELSE connections[x]]

DisconnectKeepsSession(connections, sessions, session_id) ==
    <<IF session_id \in DOMAIN connections
      THEN Del(connections, session_id) ELSE connections,
      sessions>>

\* lines 56-60: <<connections, sessions>> afterwards
disconnect(connections, sessions, session_id) ==
    <<IF session_id \in DOMAIN connections
      THEN Del(connections, session_id) ELSE connections,
      IF session_id \in DOMAIN sessions
      THEN Del(sessions, session_id) ELSE sessions>>

\* lines 70-77: the sessions afterwards; now is datetime.now().isoformat()
create_session(sessions, session_id, vid, now) ==
    [x \in (DOMAIN sessions) \cup {session_id} |->
        IF x = session_id
        THEN [video_id |-> vid, status |-> "initializing", claims |-> <<>>,
              verified_claims |-> <<>>, start_time |-> now]
        ELSE sessions[x]]

\* lines 79-81: the sessions afterwards
update_session(sessions, session_id, updates) ==
    IF session_id \in DOMAIN sessions
    THEN [sessions EXCEPT ![session_id] = Update(@, updates)]
    ELSE sessions

\* lines 83-84: dict.get
get_session(sessions, session_id) ==
    IF session_id \in DOMAIN sessions THEN Some(sessions[session_id]) ELSE None


\* lines 62-68: the messages of the session's websocket afterwards; a
\* session without a connection gets nothing
send_message(out, connections, session_id, messages) ==
    IF session_id \in DOMAIN connections
    THEN [out EXCEPT ![session_id] = @ \o messages]
    ELSE out

Message(type, body) == [type |-> type, body |-> body]

(***************************************************************************)
(* api_server.verify_single_claim: the verdict parsing.  Strings are       *)
(* sequences of characters; scores are in tenths.                          *)
(***************************************************************************)
\* the letters str.upper() and str.lower() map to each other
Letters ==
    [lower |->
        <<"a", "b", "c", "d", "e", "f", "g", "h", "i", "j", "k", "l", "m", "n", "o", "p", "q", "r", "s", "t", "u", "v", "w", "x", "y", "z">>,
     upper |->
        <<"A", "B", "C", "D", "E", "F", "G", "H", "I", "J", "K", "L", "M", "N", "O", "P", "Q", "R", "S", "T", "U", "V", "W", "X", "Y", "Z">>]

\* str.upper()
Upper(str) ==
    [n \in 1..Len(str) |->
        IF \E k \in 1..26 : Letters.lower[k] = str[n]
        THEN Letters.upper[CHOOSE k \in 1..26 : Letters.lower[k] = str[n]]
        ELSE str[n]]

\* str[:n]
Slice(str, n) == SubSeq(str, 1, IF Len(str) < n THEN Len(str) ELSE n)

\* sub in str
In(sub, str) ==
    \E n \in 0..(Len(str) - Len(sub)) :
        SubSeq(str, n + 1, n + Len(sub)) = sub

\* lines 191-207
ParseVerdict(verification_result) ==
    LET head == Slice(Upper(verification_result), 100)
    IN  IF In(<<"T", "R", "U", "E">>, head)
        THEN [verification_status |-> "verified", verification_score |-> 85]
        ELSE IF In(<<"F", "A", "L", "S", "E">>, head)
        THEN [verification_status |-> "false", verification_score |-> 20]
        ELSE IF In(<<"M", "I", "S", "L", "E", "A", "D", "I", "N", "G">>, head)
        THEN [verification_status |-> "misleading", verification_score |-> 40]
        ELSE IF In(<<"P", "A", "R", "T", "I", "A", "L", "L", "Y", " ", "T", "R", "U", "E">>, head)
        THEN [verification_status |-> "partial", verification_score |-> 60]
        ELSE [verification_status |-> "unverified", verification_score |-> 50]


(***************************************************************************)
(* The two other chunkers of the repository: api_server.chunk_transcript   *)
(* and claim_extraction/test_video_claims.chunk_transcript.  Both return   *)
(* a list of strings, one per chunk, with one line per fragment:           *)
(* "<line_number> [<start>s + <duration>s] <text>".  A line is modelled by *)
(* the tuple of the four values it is formatted from, a chunk by the       *)
(* sequence of its lines.                                                  *)
(***************************************************************************)
ItemsInit ==
    [chunks |-> <<>>, current_chunk_items |-> <<>>, current_start |-> None,
     line_number |-> 0]

\* api_server.py lines 170-174 (and 155-159): the lines of a chunk, joined
ApiChunkLines(current_chunk_items) ==
    [k \in 1..Len(current_chunk_items) |->
        [line_num |-> current_chunk_items[k][1],
         item_start |-> current_chunk_items[k][2],
         item_duration |-> current_chunk_items[k][3],
         item_text |-> current_chunk_items[k][4]]]

ApiExceedsChunkSizeGe(potential_duration, current_chunk_items, size) ==
    potential_duration >= size /\ current_chunk_items # <<>>

\* api_server.py line 154
ApiExceedsChunkSize(potential_duration, current_chunk_items, size) ==
    potential_duration > size /\ current_chunk_items # <<>>

\* api_server.py lines 134-166: one turn of the for loop
ApiLoopBody(w, item, size) ==
    LET start == item.start
        duration == item.duration
        end == start + duration
        text == Strip(item.text)
    IN  IF text = <<>> THEN w
        ELSE LET line_number == w.line_number + 1
             IN  IF w.current_start = None
                 THEN [w EXCEPT !.line_number = line_number,
                                !.current_start = Some(start),
                                !.current_chunk_items =
                                    << <<line_number, start, duration, text>> >>]
                 ELSE LET potential_duration == end - Val(w.current_start)
                      IN  IF ApiExceedsChunkSize(potential_duration,
                                                 w.current_chunk_items, size)
                          THEN [chunks |->
                                   Append(w.chunks,
                                          ApiChunkLines(w.current_chunk_items)),
                                current_start |-> Some(start),
                                current_chunk_items |->
                                   << <<line_number, start, duration, text>> >>,
                                line_number |-> line_number]
                          ELSE [w EXCEPT
                                  !.line_number = line_number,
                                  !.current_chunk_items =
                                      Append(@, <<line_number, start, duration,
                                                  text>>)]

RECURSIVE ApiRunLoop(_, _, _)
ApiRunLoop(w, items, size) ==
    IF items = <<>> THEN w
    ELSE ApiRunLoop(ApiLoopBody(w, Head(items), size), Tail(items), size)

\* api_server.py lines 125-175
api_chunk_transcript(transcript, size) ==
    LET w == ApiRunLoop(ItemsInit, transcript, size)
    IN  IF w.current_chunk_items # <<>>
        THEN Append(w.chunks, ApiChunkLines(w.current_chunk_items))
        ELSE w.chunks

\* test_video_claims.py lines 76-79 (and 90-93): the lines of a chunk, joined
TestChunkLines(current_chunk_items) ==
    [k \in 1..Len(current_chunk_items) |->
        [line_num |-> current_chunk_items[k][1],
         item_start |-> current_chunk_items[k][2],
         item_duration |-> current_chunk_items[k][3],
         item_text |-> current_chunk_items[k][4]]]

\* test_video_claims.py line 74
TestExceedsChunkSize(potential_duration, current_chunk_items, size) ==
    potential_duration > size /\ current_chunk_items # <<>>

\* test_video_claims.py lines 54-86: one turn of the for loop
TestLoopBody(w, item, size) ==
    LET start == item.start
        duration == item.duration
        end == start + duration
        text == Strip(item.text)
    IN  IF text = <<>> THEN w
        ELSE LET line_number == w.line_number + 1
             IN  IF w.current_start = None
                 THEN [w EXCEPT !.line_number = line_number,
                                !.current_start = Some(start),
                                !.current_chunk_items =
                                    << <<line_number, start, duration, text>> >>]
                 ELSE LET potential_duration == end - Val(w.current_start)
                      IN  IF TestExceedsChunkSize(potential_duration,
                                                  w.current_chunk_items, size)
                          THEN [chunks |->
                                   Append(w.chunks,
                                          TestChunkLines(w.current_chunk_items)),
                                current_start |-> Some(start),
                                current_chunk_items |->
                                   << <<line_number, start, duration, text>> >>,
                                line_number |-> line_number]
                          ELSE [w EXCEPT
                                  !.line_number = line_number,
                                  !.current_chunk_items =
                                      Append(@, <<line_number, start, duration,
                                                  text>>)]

RECURSIVE TestRunLoop(_, _, _)
TestRunLoop(w, items, size) ==
    IF items = <<>> THEN w
    ELSE TestRunLoop(TestLoopBody(w, Head(items), size), Tail(items), size)

\* test_video_claims.py lines 38-95
test_chunk_transcript(transcript, size) ==
    LET w == TestRunLoop(ItemsInit, transcript, size)
    IN  IF w.current_chunk_items # <<>>
        THEN Append(w.chunks, TestChunkLines(w.current_chunk_items))
        ELSE w.chunks


(***************************************************************************)
(* The collaborators, seen from their call sites.                          *)
(***************************************************************************)
ClaimMinimal(vid, start, end, text, speaker, importance) ==
    [video_id |-> vid, start_s |-> start, end_s |-> end, claim_text |-> text,
     speaker |-> speaker, importance_score |-> importance]

VerifiedClaim(claim, result, elapsed, id) ==
    [claim |-> claim, verification_result |-> result,
     processing_time_s |-> elapsed, chunk_id |-> id]

\* a claim with timing, and one with the "no timestamps" sentinel (0, 0);
\* importance_score is in tenths
TimedClaim == ClaimMinimal("vid", 1, 2, "p", "Speaker", 8)
UntimedClaim == ClaimMinimal("vid", 0, 0, "q", "Unknown", 3)

\* the claim lists extraction_agent.aextract may return for a chunk
ExtractionOutputs ==
    { <<>>, <<TimedClaim>>, <<UntimedClaim>>, <<TimedClaim, UntimedClaim>>,
      <<UntimedClaim, TimedClaim>> }
ExtractionErrors == {"overloaded"}
\* the texts verification_orchestrator.verify_claim may return
Verdicts == {"TRUE", "FALSE"}
VerificationErrors == {"timeout"}
\* loop.time() differences
ElapsedTimes == {0, 1}
VideoContexts == {"", "title"}
SummaryContexts == {"", "summary"}

\* what an awaited collaborator call did
NotCalled == [called |-> FALSE, raised |-> FALSE, value |-> <<>>, err |-> ""]
CallReturned(v) == [called |-> TRUE, raised |-> FALSE, value |-> v, err |-> ""]
CallRaised(e) == [called |-> TRUE, raised |-> TRUE, value |-> <<>>, err |-> e]

\* how a coroutine ended: with a value or with an exception
Returned(v) == [raised |-> FALSE, value |-> v, err |-> ""]
Raised(e) == [raised |-> TRUE, value |-> <<>>, err |-> e]
NotYet == [raised |-> FALSE, value |-> <<>>, err |-> "not done"]

(***************************************************************************)
(* asyncio.Semaphore as process_transcript uses it: a counter and a FIFO   *)
(* of waiters; release hands the permit to the first waiter not yet woken. *)
(* tasks maps a task to "pending" | "waiting" | "acquired" | "running" |   *)
(* "done"; a woken waiter is "acquired" until it runs again.               *)
(***************************************************************************)
Semaphore(value) == [value |-> value, waiters |-> <<>>]
NoSemaphore == [value |-> 0, waiters |-> <<>>]

LockedNever(sem) == FALSE

\* Semaphore.locked()
Locked(sem) == sem.value = 0 \/ sem.waiters # <<>>

\* the waiter that arrived last
RECURSIVE LastWaiting(_, _)
LastWaiting(waiters, tasks) ==
    IF waiters = <<>> THEN 0
    ELSE IF tasks[waiters[Len(waiters)]] = "waiting" THEN waiters[Len(waiters)]
    ELSE LastWaiting(SubSeq(waiters, 1, Len(waiters) - 1), tasks)

\* the first waiter whose future is not done
RECURSIVE FirstWaiting(_, _)
FirstWaiting(waiters, tasks) ==
    IF waiters = <<>> THEN 0
    ELSE IF tasks[Head(waiters)] = "waiting" THEN Head(waiters)
    ELSE FirstWaiting(Tail(waiters), tasks)

\* Semaphore._wake_up_next(): <<semaphore, tasks>> afterwards
WakeUpNext(sem, tasks) ==
    LET w == FirstWaiting(sem.waiters, tasks)
    IN  IF w = 0 THEN <<sem, tasks>>
        ELSE <<[sem EXCEPT !.value = @ - 1], [tasks EXCEPT ![w] = "acquired"]>>

\* as Release, but the permit goes back without waking a waiter
ReleaseWithoutWakeUp(sem, tasks) == <<[sem EXCEPT !.value = @ + 1], tasks>>

\* Semaphore.release(), by a task that is finishing
Release(sem, tasks) == WakeUpNext([sem EXCEPT !.value = @ + 1], tasks)

ExitAsyncWithOnSuccess(sem, tasks, call) ==
    IF call.raised THEN <<sem, tasks>> ELSE Release(sem, tasks)

\* as ExitAsyncWith, but the task whose call failed is started again
ExitAsyncWithRetry(sem, tasks, call) ==
    IF call.raised
    THEN Release(sem,
            [k \in DOMAIN tasks |->
                IF /\ tasks[k] = "done"
                   /\ \/ pc = "extracting" /\ extraction_tasks[k] = "running"
                      \/ pc = "verifying" /\ verification_tasks[k] = "running"
                THEN "pending" ELSE tasks[k]])
    ELSE Release(sem, tasks)

\* lines 239 and 275: leaving `async with semaphore` releases the permit
\* however the collaborator call inside the block ended
ExitAsyncWith(sem, tasks, call) == Release(sem, tasks)

\* as Acquire, but a task that finds the semaphore locked gives up
AcquireOrGiveUp(sem, tasks, i) ==
    IF ~Locked(sem)
    THEN <<[sem EXCEPT !.value = @ - 1], [tasks EXCEPT ![i] = "running"]>>
    ELSE <<sem, [tasks EXCEPT ![i] = "done"]>>

\* Semaphore.acquire() up to its first suspension, by task i
Acquire(sem, tasks, i) ==
    IF ~Locked(sem)
    THEN <<[sem EXCEPT !.value = @ - 1], [tasks EXCEPT ![i] = "running"]>>
    ELSE <<[sem EXCEPT !.waiters = Append(@, i)],
           [tasks EXCEPT ![i] = "waiting"]>>

\* Semaphore.acquire() after the waiter's future was set, by task i
AcquireResume(sem, tasks, i) ==
    LET s1 == [sem EXCEPT !.waiters = SelectSeq(@, LAMBDA x : x # i)]
        t1 == [tasks EXCEPT ![i] = "running"]
    IN  IF s1.value > 0 THEN WakeUpNext(s1, t1) ELSE <<s1, t1>>

\* the woken waiter the event loop runs next: set_result schedules the
\* waiter's wake-up with call_soon, and the loop runs its ready callbacks in
\* the order they were scheduled, which is the order of the waiters
RECURSIVE FirstAcquired(_, _)
FirstAcquired(waiters, tasks) ==
    IF waiters = <<>> THEN 0
    ELSE IF tasks[Head(waiters)] = "acquired" THEN Head(waiters)
    ELSE FirstAcquired(Tail(waiters), tasks)

Holders(tasks) == {i \in DOMAIN tasks : tasks[i] \in {"acquired", "running"}}

(***************************************************************************)
(* AgentLoop.extract_claims_from_chunk and AgentLoop.verify_claim          *)
(***************************************************************************)
BackfillStartOnly(chunk, claims) ==
    [k \in 1..Len(claims) |->
        IF claims[k].start_s = 0 /\ claims[k].end_s = 0
        THEN [claims[k] EXCEPT !.start_s = chunk.start_s]
        ELSE claims[k]]

BackfillSwapped(chunk, claims) ==
    [k \in 1..Len(claims) |->
        IF claims[k].start_s = 0 /\ claims[k].end_s = 0
        THEN [claims[k] EXCEPT !.start_s = chunk.end_s,
                               !.end_s = chunk.start_s]
        ELSE claims[k]]

\* as Backfill, but for the claims whose start_s or end_s is 0
BackfillEitherZero(chunk, claims) ==
    [k \in 1..Len(claims) |->
        IF claims[k].start_s = 0 \/ claims[k].end_s = 0
        THEN [claims[k] EXCEPT !.start_s = chunk.start_s,
                               !.end_s = chunk.end_s]
        ELSE claims[k]]

\* lines 159-168: chunk timing for the claims that have none
Backfill(chunk, claims) ==
    [k \in 1..Len(claims) |->
        IF claims[k].start_s = 0 /\ claims[k].end_s = 0
        THEN [claims[k] EXCEPT !.start_s = chunk.start_s,
                               !.end_s = chunk.end_s]
        ELSE claims[k]]

\* lines 149-172; call is what aextract did
extract_claims_from_chunk(chunk, call) ==
    IF call.raised THEN Returned(<<>>)
    ELSE Returned(Backfill(chunk, call.value))

\* as extract_with_semaphore, but the id returned with the claims is the
\* number of tasks that finished earlier
ExtractWithSemaphoreByCompletion(chunk, call) ==
    LET r == extract_claims_from_chunk(chunk, call)
        finished == {i \in DOMAIN extraction_tasks : extraction_tasks[i] = "done"}
    IN  Returned(<<r.value, Cardinality(finished)>>)

\* lines 238-240, after the semaphore is held
extract_with_semaphore(chunk, call) ==
    LET r == extract_claims_from_chunk(chunk, call)
    IN  IF r.raised THEN r ELSE Returned(<<r.value, chunk.chunk_id>>)

VerifyClaimBareMarker(claim, id, call, elapsed) ==
    IF call.raised
    THEN Returned(VerifiedClaim(claim, <<"Verification failed: ">>, elapsed, id))
    ELSE Returned(VerifiedClaim(claim, <<call.value>>, elapsed, id))

VerifyClaimNoExcept(claim, id, call, elapsed) ==
    IF call.raised THEN Raised(call.err)
    ELSE Returned(VerifiedClaim(claim, <<call.value>>, elapsed, id))

\* lines 174-196; call is what the orchestrator's verify_claim did
verify_claim(claim, id, call, elapsed) ==
    IF call.raised
    THEN Returned(VerifiedClaim(claim, <<"Verification failed: ", call.err>>,
                                elapsed, id))
    ELSE Returned(VerifiedClaim(claim, <<call.value>>, elapsed, id))

\* lines 273-276, after the semaphore is held
verify_with_semaphore(claim_and_chunk, call, elapsed) ==
    verify_claim(claim_and_chunk[1], claim_and_chunk[2], call, elapsed)

IsFailureMarker(result) == result[1] = "Verification failed: "


(***************************************************************************)
(* AgentLoop.process_transcript: the two collection loops                  *)
(***************************************************************************)
PutAtZero(d, key, v) == [x \in (DOMAIN d) \cup {0} |-> v]

\* dict assignment d[key] = v
Put(d, key, v) ==
    [x \in (DOMAIN d) \cup {key} |-> IF x = key THEN v ELSE d[x]]

TaggedZero(claims, id) == [n \in 1..Len(claims) |-> <<claims[n], 0>>]

\* (claim, chunk_id) for each claim of a chunk
Tagged(claims, id) == [n \in 1..Len(claims) |-> <<claims[n], id>>]

AppendClaimsInFront(acc, claims, id) == Tagged(claims, id) \o acc

\* lines 258-259: all_claims.append((claim, chunk_id)) for each claim
AppendClaims(acc, claims, id) == acc \o Tagged(claims, id)

\* lines 249-259, from the k-th result on; acc holds all_claims,
\* total_claims_by_chunk and the number of times line 251 ran
RECURSIVE CollectLoop(_, _, _)
CollectLoop(results, k, acc) ==
    IF k > Len(results) THEN acc
    ELSE LET result == results[k]
             i == k - 1
         IN  IF result.raised
             THEN CollectLoop(results, k + 1,
                     [acc EXCEPT !.total_claims_by_chunk = Put(@, i, 0),
                                 !.failed = @ + 1])
             ELSE LET claims == result.value[1]
                      id == result.value[2]
                  IN  CollectLoop(results, k + 1,
                         [acc EXCEPT
                            !.total_claims_by_chunk = Put(@, id, Len(claims)),
                            !.all_claims = AppendClaims(@, claims, id)])

\* lines 245-259
CollectClaims(results) ==
    CollectLoop(results, 1,
        [all_claims |-> <<>>, total_claims_by_chunk |-> <<>>, failed |-> 0])

\* lines 282-287, from the k-th result on
RECURSIVE FilterLoop(_, _, _)
FilterLoop(results, k, acc) ==
    IF k > Len(results) THEN acc
    ELSE IF results[k].raised
    THEN FilterLoop(results, k + 1, [acc EXCEPT !.failed = @ + 1])
    ELSE FilterLoop(results, k + 1,
            [acc EXCEPT !.final_results = Append(@, results[k].value)])

\* lines 281-287
FilterExceptions(results) ==
    FilterLoop(results, 1, [final_results |-> <<>>, failed |-> 0])

IsEmptyNever(list) == FALSE

\* line 265: `not all_claims`
IsEmpty(list) == list = <<>>

\* line 243: await asyncio.gather(*extraction_tasks, return_exceptions=True)
\* resumes when every task is done
ExtractionGatherDone(tasks) == \A i \in DOMAIN tasks : tasks[i] = "done"

VerificationGatherFirstDone(tasks) == \E j \in DOMAIN tasks : tasks[j] = "done"

\* line 279: await asyncio.gather(*verification_tasks, return_exceptions=True)
VerificationGatherDone(tasks) == \A j \in DOMAIN tasks : tasks[j] = "done"

(***************************************************************************)
(* Initial states                                                          *)
(***************************************************************************)
\* fragment texts: blank, plain, and one with spaces around and inside
Texts == { <<" ">>, <<"a">>, <<" ", "b", " ", "c", " ">> }
Fragments == [text : Texts, start : 0..MaxStart, duration : 0..MaxDuration]
Streams == UNION { [1..n -> Fragments] : n \in 0..MaxFrags }

\* k fragments of d seconds, back to back
Stream(k, d) == [j \in 1..k |-> [text |-> <<"a">>, start |-> (j - 1) * d,
                                 duration |-> d]]
\* a stream whose only fragment is blank
BlankStream == << [text |-> <<" ">>, start |-> 0, duration |-> 1] >>
PipelineStreams ==
    { Stream(k, d) : k \in 0..MaxChunks, d \in {1, 4} } \cup {BlankStream}
Limits == (0 - 1)..MaxLimit
\* chunk_size_seconds is whatever float the caller passed to __init__
Spans == (0 - 1)..MaxSpan

\* no second call, and a second call about to run
OtherIdle ==
    [pc |-> "idle", transcript_raw |-> <<>>, video_id |-> "",
     chunks |-> <<>>, semaphore_extract |-> NoSemaphore,
     extraction_tasks |-> <<>>, extractor_calls |-> <<>>,
     extraction_results |-> <<>>, all_claims |-> <<>>,
     total_claims_by_chunk |-> <<>>, semaphore_verify |-> NoSemaphore,
     verification_tasks |-> <<>>, verifier_calls |-> <<>>,
     verified_claims |-> <<>>, final_results |-> <<>>]

OtherCall(transcript, vid) ==
    [OtherIdle EXCEPT !.pc = "start", !.transcript_raw = transcript,
                      !.video_id = vid]

\* the module-level manager = ConnectionManager() (api_server.py 48-50, 86)
ManagerInit ==
    /\ active_connections = <<>>
    /\ processing_sessions = <<>>
    /\ created = {}
    /\ last_call = [op |-> "", session_id |-> ""]

SessionIds == {"s1", "s2"}

\* process_video_pipeline not called for any session
PipelineNotStarted ==
    [pc |-> "idle", video_id |-> "", chunks |-> <<>>, i |-> 0,
     all_claims |-> <<>>]

\* a fresh manager, no pipeline, and neither verify_claim nor aextract called
ServerIdle ==
    /\ apc = "idle"
    /\ chain_result = <<>>
    /\ unique_claims = <<>>
    /\ vpc = "idle"
    /\ specialists = <<>>
    /\ agent_results = <<>>
    /\ synthesis = [calls |-> 0, findings |-> <<>>]
    /\ ManagerInit
    /\ pipelines = [id \in SessionIds |-> PipelineNotStarted]
    /\ verifications = <<>>
    /\ outbox = [id \in SessionIds |-> <<>>]

WindowIdle == cpc = "idle" /\ next_item = 1 /\ win = WindowInit

PipelineIdle ==
    /\ video_context = ""
    /\ summary_context = ""
    /\ chunks = <<>>
    /\ semaphore_extract = NoSemaphore
    /\ extraction_tasks = <<>>
    /\ extractor_calls = <<>>
    /\ extraction_results = <<>>
    /\ all_claims = <<>>
    /\ total_claims_by_chunk = <<>>
    /\ extraction_failures = 0
    /\ semaphore_verify = NoSemaphore
    /\ verification_tasks = <<>>
    /\ verifier_calls = <<>>
    /\ verified_claims = <<>>
    /\ verification_failures = 0
    /\ final_results = <<>>

\* an AgentLoop and a call of process_transcript about to run
Init ==
    /\ chunk_size_seconds = 3
    /\ max_parallel_extractions \in Limits
    /\ max_parallel_verifications \in Limits
    /\ transcript_raw \in PipelineStreams
    /\ video_id = "vid"
    /\ WindowIdle
    /\ pc = "start"
    /\ PipelineIdle
    /\ other = OtherIdle
    /\ ServerIdle

\* an AgentLoop and a call of chunk_transcript about to run
InitChunk ==
    /\ chunk_size_seconds \in Spans
    /\ max_parallel_extractions = 1
    /\ max_parallel_verifications = 1
    /\ transcript_raw \in Streams
    /\ video_id = "vid"
    /\ cpc = "loop"
    /\ next_item = 1
    /\ win = WindowInit
    /\ pc = "idle"
    /\ PipelineIdle
    /\ other = OtherIdle
    /\ ServerIdle

(***************************************************************************)
(* chunk_transcript, one fragment at a time                                *)
(***************************************************************************)
\* one iteration of the for loop (lines 98-135)
ChunkItem ==
    /\ cpc = "loop"
    /\ next_item <= Len(transcript_raw)
    /\ win' = LoopBody(win, transcript_raw[next_item])
    /\ next_item' = next_item + 1
    /\ UNCHANGED <<cfgvars, cpc, pc, video_context, summary_context,
                   extractvars, verifyvars>>

\* the loop is exhausted: final chunk, return (lines 137-147); the returned
\* list is win.chunks
ChunkReturn ==
    /\ cpc = "loop"
    /\ next_item > Len(transcript_raw)
    /\ win' = [win EXCEPT !.chunks = LoopExit(win)]
    /\ cpc' = "returned"
    /\ UNCHANGED <<cfgvars, next_item, pc, video_context, summary_context,
                   extractvars, verifyvars>>

NextChunk == ChunkItem \/ ChunkReturn

SpecChunk == InitChunk /\ [][NextChunk]_vars


(***************************************************************************)
(* process_transcript                                                      *)
(***************************************************************************)
\* lines 209-243: contexts (either may fail and be ""), chunking, the
\* extraction semaphore, one extract_with_semaphore per chunk, gather.
\* asyncio.Semaphore raises ValueError for a negative value.
Begin ==
    /\ pc = "start"
    /\ \E vc \in VideoContexts, sc \in SummaryContexts :
          /\ video_context' = vc
          /\ summary_context' = sc
    /\ chunks' = chunk_transcript(transcript_raw)
    /\ IF max_parallel_extractions < 0
       THEN /\ pc' = "raised"
            /\ UNCHANGED <<semaphore_extract, extraction_tasks,
                           extractor_calls, extraction_results>>
       ELSE /\ pc' = "extracting"
            /\ semaphore_extract' = Semaphore(max_parallel_extractions)
            /\ extraction_tasks' = [i \in 1..Len(chunks') |-> "pending"]
            /\ extractor_calls' = [i \in 1..Len(chunks') |-> NotCalled]
            /\ extraction_results' = [i \in 1..Len(chunks') |-> NotYet]
    /\ UNCHANGED <<cfgvars, winvars, all_claims, total_claims_by_chunk,
                   extraction_failures, verifyvars>>

\* task i runs for the first time: async with semaphore_extract (line 239);
\* the event loop starts the tasks in the order gather was given them
ExtractStart(i) ==
    /\ pc = "extracting"
    /\ extraction_tasks[i] = "pending"
    /\ \A j \in 1..(i - 1) : extraction_tasks[j] # "pending"
    /\ LET a == Acquire(semaphore_extract, extraction_tasks, i)
       IN  /\ semaphore_extract' = a[1]
           /\ extraction_tasks' = a[2]
    /\ UNCHANGED <<cfgvars, winvars, pc, video_context, summary_context,
                   chunks, extractor_calls, extraction_results, all_claims,
                   total_claims_by_chunk, extraction_failures, verifyvars>>

\* task i, woken by a release, leaves acquire() and calls the extractor
ExtractResume(i) ==
    /\ pc = "extracting"
    /\ extraction_tasks[i] = "acquired"
    /\ i = FirstAcquired(semaphore_extract.waiters, extraction_tasks)
    /\ LET a == AcquireResume(semaphore_extract, extraction_tasks, i)
       IN  /\ semaphore_extract' = a[1]
           /\ extraction_tasks' = a[2]
    /\ UNCHANGED <<cfgvars, winvars, pc, video_context, summary_context,
                   chunks, extractor_calls, extraction_results, all_claims,
                   total_claims_by_chunk, extraction_failures, verifyvars>>

\* the extractor call of task i ended as `call`; the task finishes
\* extract_claims_from_chunk, leaves the async with (release) and is done
ExtractFinish(i, call) ==
    /\ pc = "extracting"
    /\ extraction_tasks[i] = "running"
    /\ extractor_calls' = [extractor_calls EXCEPT ![i] = call]
    /\ extraction_results' =
          [extraction_results EXCEPT ![i] = extract_with_semaphore(chunks[i], call)]
    /\ LET r == ExitAsyncWith(semaphore_extract,
                              [extraction_tasks EXCEPT ![i] = "done"], call)
       IN  /\ semaphore_extract' = r[1]
           /\ extraction_tasks' = r[2]
    /\ UNCHANGED <<cfgvars, winvars, pc, video_context, summary_context,
                   chunks, all_claims, total_claims_by_chunk,
                   extraction_failures, verifyvars>>

\* line 152 returned an ExtractionOutput
ExtractorReturns(i) ==
    \E claims \in ExtractionOutputs : ExtractFinish(i, CallReturned(claims))

\* line 152 raised
ExtractorRaises(i) ==
    \E e \in ExtractionErrors : ExtractFinish(i, CallRaised(e))

\* as CollectExtraction, but going on as soon as one extraction task is
\* done, with the results that are there
CollectExtractionEarly ==
    /\ pc = "extracting"
    /\ \E i \in DOMAIN extraction_tasks : extraction_tasks[i] = "done"
    /\ LET c == CollectClaims(SelectSeq(extraction_results,
                                        LAMBDA r : r # NotYet))
       IN  /\ all_claims' = c.all_claims
           /\ total_claims_by_chunk' = c.total_claims_by_chunk
           /\ extraction_failures' = c.failed
           /\ IF IsEmpty(c.all_claims)
              THEN /\ pc' = "done"
                   /\ final_results' = <<>>
                   /\ UNCHANGED <<semaphore_verify, verification_tasks,
                                  verifier_calls, verified_claims>>
              ELSE IF max_parallel_verifications < 0
              THEN /\ pc' = "raised"
                   /\ UNCHANGED <<semaphore_verify, verification_tasks,
                                  verifier_calls, verified_claims,
                                  final_results>>
              ELSE /\ pc' = "verifying"
                   /\ semaphore_verify' = Semaphore(max_parallel_verifications)
                   /\ verification_tasks' =
                         [j \in 1..Len(c.all_claims) |-> "pending"]
                   /\ verifier_calls' =
                         [j \in 1..Len(c.all_claims) |-> NotCalled]
                   /\ verified_claims' =
                         [j \in 1..Len(c.all_claims) |-> NotYet]
                   /\ UNCHANGED final_results
    /\ UNCHANGED <<cfgvars, winvars, video_context, summary_context, chunks,
                   semaphore_extract, extraction_tasks, extractor_calls,
                   extraction_results, verification_failures>>

\* gather returned (line 243): lines 245-279 up to the second gather
CollectExtraction ==
    /\ pc = "extracting"
    /\ ExtractionGatherDone(extraction_tasks)
    /\ LET c == CollectClaims(extraction_results)
       IN  /\ all_claims' = c.all_claims
           /\ total_claims_by_chunk' = c.total_claims_by_chunk
           /\ extraction_failures' = c.failed
           /\ IF IsEmpty(c.all_claims)
              THEN /\ pc' = "done"
                   /\ final_results' = <<>>
                   /\ UNCHANGED <<semaphore_verify, verification_tasks,
                                  verifier_calls, verified_claims>>
              ELSE IF max_parallel_verifications < 0
              THEN /\ pc' = "raised"
                   /\ UNCHANGED <<semaphore_verify, verification_tasks,
                                  verifier_calls, verified_claims,
                                  final_results>>
              ELSE /\ pc' = "verifying"
                   /\ semaphore_verify' = Semaphore(max_parallel_verifications)
                   /\ verification_tasks' =
                         [j \in 1..Len(c.all_claims) |-> "pending"]
                   /\ verifier_calls' =
                         [j \in 1..Len(c.all_claims) |-> NotCalled]
                   /\ verified_claims' =
                         [j \in 1..Len(c.all_claims) |-> NotYet]
                   /\ UNCHANGED final_results
    /\ UNCHANGED <<cfgvars, winvars, video_context, summary_context, chunks,
                   semaphore_extract, extraction_tasks, extractor_calls,
                   extraction_results, verification_failures>>

\* task j runs for the first time: async with semaphore_verify (line 275)
VerifyStart(j) ==
    /\ pc = "verifying"
    /\ verification_tasks[j] = "pending"
    /\ \A k \in 1..(j - 1) : verification_tasks[k] # "pending"
    /\ LET a == Acquire(semaphore_verify, verification_tasks, j)
       IN  /\ semaphore_verify' = a[1]
           /\ verification_tasks' = a[2]
    /\ UNCHANGED <<cfgvars, winvars, pc, video_context, summary_context,
                   extractvars, verifier_calls, verified_claims,
                   verification_failures, final_results>>

\* task j, woken by a release, leaves acquire() and calls the verifier
VerifyResume(j) ==
    /\ pc = "verifying"
    /\ verification_tasks[j] = "acquired"
    /\ j = FirstAcquired(semaphore_verify.waiters, verification_tasks)
    /\ LET a == AcquireResume(semaphore_verify, verification_tasks, j)
       IN  /\ semaphore_verify' = a[1]
           /\ verification_tasks' = a[2]
    /\ UNCHANGED <<cfgvars, winvars, pc, video_context, summary_context,
                   extractvars, verifier_calls, verified_claims,
                   verification_failures, final_results>>

\* the verifier call of task j ended as `call` after `elapsed`; the task
\* builds its VerifiedClaim, leaves the async with (release) and is done
VerifyFinish(j, call, elapsed) ==
    /\ pc = "verifying"
    /\ verification_tasks[j] = "running"
    /\ verifier_calls' = [verifier_calls EXCEPT ![j] = call]
    /\ verified_claims' =
          [verified_claims EXCEPT
              ![j] = verify_with_semaphore(all_claims[j], call, elapsed)]
    /\ LET r == ExitAsyncWith(semaphore_verify,
                              [verification_tasks EXCEPT ![j] = "done"], call)
       IN  /\ semaphore_verify' = r[1]
           /\ verification_tasks' = r[2]
    /\ UNCHANGED <<cfgvars, winvars, pc, video_context, summary_context,
                   extractvars, verification_failures, final_results>>

\* line 179 returned a verdict
VerifierReturns(j) ==
    \E v \in Verdicts, t \in ElapsedTimes : VerifyFinish(j, CallReturned(v), t)

\* line 179 raised
VerifierRaises(j) ==
    \E e \in VerificationErrors, t \in ElapsedTimes :
        VerifyFinish(j, CallRaised(e), t)

\* gather returned (line 279): lines 281-290
CollectVerification ==
    /\ pc = "verifying"
    /\ VerificationGatherDone(verification_tasks)
    /\ LET f == FilterExceptions(verified_claims)
       IN  /\ final_results' = f.final_results
           /\ verification_failures' = f.failed
    /\ pc' = "done"
    /\ UNCHANGED <<cfgvars, winvars, video_context, summary_context,
                   extractvars, semaphore_verify, verification_tasks,
                   verifier_calls, verified_claims>>

Next ==
    \/ Begin
    \/ \E i \in DOMAIN extraction_tasks : ExtractStart(i)
    \/ \E i \in DOMAIN extraction_tasks : ExtractResume(i)
    \/ \E i \in DOMAIN extraction_tasks : ExtractorReturns(i)
    \/ \E i \in DOMAIN extraction_tasks : ExtractorRaises(i)
    \/ CollectExtraction
    \/ \E j \in DOMAIN verification_tasks : VerifyStart(j)
    \/ \E j \in DOMAIN verification_tasks : VerifyResume(j)
    \/ \E j \in DOMAIN verification_tasks : VerifierReturns(j)
    \/ \E j \in DOMAIN verification_tasks : VerifierRaises(j)
    \/ CollectVerification

Spec == Init /\ [][Next]_vars


(***************************************************************************)
(* Two calls of process_transcript on one AgentLoop, interleaved on one    *)
(* event loop.  The second call runs the same code on its own arguments    *)
(* and its own locals (the record `other`); the two calls share the        *)
(* AgentLoop's fields, which neither writes, and the collaborators.        *)
(***************************************************************************)
primaryvars == <<chunk_size_seconds, max_parallel_extractions,
                 max_parallel_verifications, transcript_raw, video_id,
                 winvars, pc, video_context, summary_context, extractvars,
                 verifyvars, servervars, orchvars, agentvars>>

\* the second call's transcript and what the collaborators answer for it
OtherStream == [j \in 1..2 |-> [text |-> <<"c">>, start |-> 10 + (j - 1) * 4,
                                duration |-> 4]]
OtherUntimedClaim == ClaimMinimal("vid2", 0, 0, "s", "Unknown", 2)
OtherExtractionOutputs == { <<>>, <<OtherUntimedClaim>> }

\* line 231, for the second call's arguments
OtherChunks ==
    LET cs == chunk_transcript(other.transcript_raw)
    IN  [k \in 1..Len(cs) |-> [cs[k] EXCEPT !.video_id = other.video_id]]

OwnListOfOtherCall(list) == all_claims

\* lines 246, 265, 278: all_claims is a local of the call
OwnList(list) == list

\* lines 209-243
OtherBegin ==
    /\ other.pc = "start"
    /\ LET cs == OtherChunks
       IN  other' =
              IF max_parallel_extractions < 0
              THEN [other EXCEPT !.pc = "raised", !.chunks = cs]
              ELSE [other EXCEPT
                      !.pc = "extracting",
                      !.chunks = cs,
                      !.semaphore_extract = Semaphore(max_parallel_extractions),
                      !.extraction_tasks = [i \in 1..Len(cs) |-> "pending"],
                      !.extractor_calls = [i \in 1..Len(cs) |-> NotCalled],
                      !.extraction_results = [i \in 1..Len(cs) |-> NotYet]]
    /\ UNCHANGED primaryvars

\* line 239, first run of task i
OtherExtractStart(i) ==
    /\ other.pc = "extracting"
    /\ other.extraction_tasks[i] = "pending"
    /\ \A j \in 1..(i - 1) : other.extraction_tasks[j] # "pending"
    /\ LET a == Acquire(other.semaphore_extract, other.extraction_tasks, i)
       IN  other' = [other EXCEPT !.semaphore_extract = a[1],
                                  !.extraction_tasks = a[2]]
    /\ UNCHANGED primaryvars

\* line 239, task i woken by a release
OtherExtractResume(i) ==
    /\ other.pc = "extracting"
    /\ other.extraction_tasks[i] = "acquired"
    /\ i = FirstAcquired(other.semaphore_extract.waiters,
                         other.extraction_tasks)
    /\ LET a == AcquireResume(other.semaphore_extract,
                              other.extraction_tasks, i)
       IN  other' = [other EXCEPT !.semaphore_extract = a[1],
                                  !.extraction_tasks = a[2]]
    /\ UNCHANGED primaryvars

\* lines 239-240, the extractor call of task i ended as `call`
OtherExtractFinish(i, call) ==
    /\ other.pc = "extracting"
    /\ other.extraction_tasks[i] = "running"
    /\ LET r == ExitAsyncWith(other.semaphore_extract,
                              [other.extraction_tasks EXCEPT ![i] = "done"],
                              call)
       IN  other' =
              [other EXCEPT
                 !.extractor_calls[i] = call,
                 !.extraction_results[i] =
                     extract_with_semaphore(other.chunks[i], call),
                 !.semaphore_extract = r[1],
                 !.extraction_tasks = r[2]]
    /\ UNCHANGED primaryvars

OtherExtractorReturns(i) ==
    \E claims \in OtherExtractionOutputs :
        OtherExtractFinish(i, CallReturned(claims))

OtherExtractorRaises(i) ==
    \E e \in ExtractionErrors : OtherExtractFinish(i, CallRaised(e))

\* lines 243-279
OtherCollectExtraction ==
    /\ other.pc = "extracting"
    /\ ExtractionGatherDone(other.extraction_tasks)
    /\ LET c == CollectClaims(other.extraction_results)
           work == OwnList(c.all_claims)
           o == [other EXCEPT
                   !.all_claims = work,
                   !.total_claims_by_chunk = c.total_claims_by_chunk]
       IN  other' =
              IF IsEmpty(work)
              THEN [o EXCEPT !.pc = "done", !.final_results = <<>>]
              ELSE IF max_parallel_verifications < 0
              THEN [o EXCEPT !.pc = "raised"]
              ELSE [o EXCEPT
                      !.pc = "verifying",
                      !.semaphore_verify =
                          Semaphore(max_parallel_verifications),
                      !.verification_tasks =
                          [j \in 1..Len(work) |-> "pending"],
                      !.verifier_calls = [j \in 1..Len(work) |-> NotCalled],
                      !.verified_claims = [j \in 1..Len(work) |-> NotYet]]
    /\ UNCHANGED primaryvars

\* line 275, first run of task j
OtherVerifyStart(j) ==
    /\ other.pc = "verifying"
    /\ other.verification_tasks[j] = "pending"
    /\ \A k \in 1..(j - 1) : other.verification_tasks[k] # "pending"
    /\ LET a == Acquire(other.semaphore_verify, other.verification_tasks, j)
       IN  other' = [other EXCEPT !.semaphore_verify = a[1],
                                  !.verification_tasks = a[2]]
    /\ UNCHANGED primaryvars

\* line 275, task j woken by a release
OtherVerifyResume(j) ==
    /\ other.pc = "verifying"
    /\ other.verification_tasks[j] = "acquired"
    /\ j = FirstAcquired(other.semaphore_verify.waiters,
                         other.verification_tasks)
    /\ LET a == AcquireResume(other.semaphore_verify,
                              other.verification_tasks, j)
       IN  other' = [other EXCEPT !.semaphore_verify = a[1],
                                  !.verification_tasks = a[2]]
    /\ UNCHANGED primaryvars

\* lines 275-276, the verifier call of task j ended as `call`
OtherVerifyFinish(j, call, elapsed) ==
    /\ other.pc = "verifying"
    /\ other.verification_tasks[j] = "running"
    /\ LET r == ExitAsyncWith(other.semaphore_verify,
                              [other.verification_tasks EXCEPT ![j] = "done"],
                              call)
       IN  other' =
              [other EXCEPT
                 !.verifier_calls[j] = call,
                 !.verified_claims[j] =
                     verify_with_semaphore(other.all_claims[j], call, elapsed),
                 !.semaphore_verify = r[1],
                 !.verification_tasks = r[2]]
    /\ UNCHANGED primaryvars

OtherVerifierReturns(j) ==
    \E v \in Verdicts : OtherVerifyFinish(j, CallReturned(v), 0)

OtherVerifierRaises(j) ==
    \E e \in VerificationErrors : OtherVerifyFinish(j, CallRaised(e), 0)

\* lines 279-290
OtherCollectVerification ==
    /\ other.pc = "verifying"
    /\ VerificationGatherDone(other.verification_tasks)
    /\ other' = [other EXCEPT
                   !.pc = "done",
                   !.final_results =
                       FilterExceptions(other.verified_claims).final_results]
    /\ UNCHANGED primaryvars

\* the two calls: two chunks each, limits of at least 1
InitPair ==
    /\ chunk_size_seconds = 3
    /\ max_parallel_extractions \in 1..MaxLimit
    /\ max_parallel_verifications \in 1..MaxLimit
    /\ transcript_raw = Stream(2, 4)
    /\ video_id = "vid"
    /\ WindowIdle
    /\ pc = "start"
    /\ PipelineIdle
    /\ other = OtherCall(OtherStream, "vid2")
    /\ ServerIdle

\* what the collaborators answer the first call in these runs
PairAnswers ==
    /\ video_context' = ""
    /\ summary_context' = ""
    /\ \A i \in DOMAIN extractor_calls' :
          Len(extractor_calls'[i].value) <= 1
    /\ \A j \in DOMAIN verified_claims' :
          verified_claims'[j] # NotYet
          => verified_claims'[j].value.processing_time_s = 0

NextPair ==
    \/ Begin /\ PairAnswers
    \/ \E i \in DOMAIN extraction_tasks : ExtractStart(i)
    \/ \E i \in DOMAIN extraction_tasks : ExtractResume(i)
    \/ \E i \in DOMAIN extraction_tasks : ExtractorReturns(i) /\ PairAnswers
    \/ \E i \in DOMAIN extraction_tasks : ExtractorRaises(i)
    \/ CollectExtraction
    \/ \E j \in DOMAIN verification_tasks : VerifyStart(j)
    \/ \E j \in DOMAIN verification_tasks : VerifyResume(j)
    \/ \E j \in DOMAIN verification_tasks : VerifierReturns(j) /\ PairAnswers
    \/ \E j \in DOMAIN verification_tasks : VerifierRaises(j) /\ PairAnswers
    \/ CollectVerification
    \/ OtherBegin
    \/ \E i \in DOMAIN other.extraction_tasks : OtherExtractStart(i)
    \/ \E i \in DOMAIN other.extraction_tasks : OtherExtractResume(i)
    \/ \E i \in DOMAIN other.extraction_tasks : OtherExtractorReturns(i)
    \/ \E i \in DOMAIN other.extraction_tasks : OtherExtractorRaises(i)
    \/ OtherCollectExtraction
    \/ \E j \in DOMAIN other.verification_tasks : OtherVerifyStart(j)
    \/ \E j \in DOMAIN other.verification_tasks : OtherVerifyResume(j)
    \/ \E j \in DOMAIN other.verification_tasks : OtherVerifierReturns(j)
    \/ \E j \in DOMAIN other.verification_tasks : OtherVerifierRaises(j)
    \/ OtherCollectVerification

SpecPair == InitPair /\ [][NextPair]_vars


(***************************************************************************)
(* The extraction stage of process_transcript alone (lines 209-267), with  *)
(* an extractor that may return any list of up to MaxClaims claims, among  *)
(* them claims whose start_s alone is 0.                                   *)
(***************************************************************************)
MaxClaims == 2

\* a claim that starts at 0 s and has timing
EarlyClaim == ClaimMinimal("vid", 0, 2, "r", "Host", 5)

AnyExtractionOutputs ==
    UNION { [1..n -> {TimedClaim, UntimedClaim, EarlyClaim}] :
            n \in 0..MaxClaims }

\* line 152 returned an ExtractionOutput
ExtractorReturnsAny(i) ==
    \E claims \in AnyExtractionOutputs :
        ExtractFinish(i, CallReturned(claims))

NextExtraction ==
    \/ Begin
    \/ \E i \in DOMAIN extraction_tasks : ExtractStart(i)
    \/ \E i \in DOMAIN extraction_tasks : ExtractResume(i)
    \/ \E i \in DOMAIN extraction_tasks : ExtractorReturnsAny(i)
    \/ \E i \in DOMAIN extraction_tasks : ExtractorRaises(i)
    \/ CollectExtraction

SpecExtraction == Init /\ [][NextExtraction]_vars


(***************************************************************************)
(* The ConnectionManager under any sequence of calls of connect,           *)
(* disconnect, create_session and update_session.                          *)
(***************************************************************************)

loopvars == <<chunk_size_seconds, max_parallel_extractions,
              max_parallel_verifications, transcript_raw, video_id, other,
              winvars, pc, video_context, summary_context, extractvars,
              verifyvars, orchvars, agentvars>>
workvars == <<pipelines, verifications, outbox>>

\* an AgentLoop at rest and a fresh manager
InitManager ==
    /\ chunk_size_seconds = 3
    /\ max_parallel_extractions = 1
    /\ max_parallel_verifications = 1
    /\ transcript_raw = <<>>
    /\ video_id = "vid"
    /\ WindowIdle
    /\ pc = "idle"
    /\ PipelineIdle
    /\ other = OtherIdle
    /\ ServerIdle

\* lines 52-54
MgrConnect(session_id) ==
    /\ \E websocket \in {"ws1", "ws2"} :
          active_connections' =
              connect(active_connections, websocket, session_id)
    /\ last_call' = [op |-> "connect", session_id |-> session_id]
    /\ UNCHANGED <<processing_sessions, created, loopvars, workvars>>

\* lines 56-60
MgrDisconnect(session_id) ==
    /\ LET d == disconnect(active_connections, processing_sessions, session_id)
       IN  /\ active_connections' = d[1]
           /\ processing_sessions' = d[2]
    /\ created' = created \ {session_id}
    /\ last_call' = [op |-> "disconnect", session_id |-> session_id]
    /\ UNCHANGED <<loopvars, workvars>>

\* lines 70-77
MgrCreateSession(session_id) ==
    /\ \E vid \in {"v1", "v2"}, now \in {"t0"} :
          processing_sessions' =
              create_session(processing_sessions, session_id, vid, now)
    /\ created' = created \cup {session_id}
    /\ last_call' = [op |-> "create_session", session_id |-> session_id]
    /\ UNCHANGED <<active_connections, loopvars, workvars>>

\* lines 79-81
MgrUpdateSession(session_id) ==
    /\ \E updates \in { [status |-> "completed"],
                        [status |-> "error", error |-> "failed"] } :
          processing_sessions' =
              update_session(processing_sessions, session_id, updates)
    /\ last_call' = [op |-> "update_session", session_id |-> session_id]
    /\ UNCHANGED <<active_connections, created, loopvars, workvars>>

NextManager ==
    \/ \E session_id \in SessionIds : MgrConnect(session_id)
    \/ \E session_id \in SessionIds : MgrDisconnect(session_id)
    \/ \E session_id \in SessionIds : MgrCreateSession(session_id)
    \/ \E session_id \in SessionIds : MgrUpdateSession(session_id)

SpecManager == InitManager /\ [][NextManager]_vars


(***************************************************************************)
(* The api_server endpoints and background work: POST /process-video, the  *)
(* websocket endpoint, process_video_pipeline and the verify_single_claim  *)
(* tasks it creates.  A step is the code between two awaits of a           *)
(* collaborator (transcript fetch, extractor, verifier, sleep); the        *)
(* awaits of send_message inside a step are not scheduling points here.    *)
(***************************************************************************)
\* what orchestrator.verify_claim may return (orchestrator.py lines 89-95),
\* and a text whose label starts at character 98
VerdictTexts ==
    { <<"V", "E", "R", "D", "I", "C", "T", ":", " ", "T", "R", "U", "E">>, <<"V", "E", "R", "D", "I", "C", "T", ":", " ", "F", "A", "L", "S", "E">>, <<"V", "E", "R", "D", "I", "C", "T", ":", " ", "M", "I", "S", "L", "E", "A", "D", "I", "N", "G">>, <<"V", "E", "R", "D", "I", "C", "T", ":", " ", "P", "A", "R", "T", "I", "A", "L", "L", "Y", " ", "T", "R", "U", "E">>, <<"V", "E", "R", "D", "I", "C", "T", ":", " ", "U", "N", "V", "E", "R", "I", "F", "I", "A", "B", "L", "E">>,
      [n \in 1..97 |-> " "] \o <<"T", "R", "U", "E">> }

\* the session ids the clients of these runs use
ServerSessions == {"s1"}

\* lines 364-382: POST /process-video, once per session id
ProcessVideo(session_id) ==
    /\ pipelines[session_id].pc = "idle"
    /\ \E vid \in {"v1"}, now \in {"t0"} :
          /\ processing_sessions' =
                create_session(processing_sessions, session_id, vid, now)
          /\ pipelines' = [pipelines EXCEPT ![session_id].pc = "queued",
                                            ![session_id].video_id = vid]
    /\ created' = created \cup {session_id}
    /\ last_call' = [op |-> "create_session", session_id |-> session_id]
    /\ UNCHANGED <<active_connections, verifications, outbox, loopvars>>

\* lines 393-404: a client opens the websocket of a session
WsConnect(session_id) ==
    /\ session_id \notin DOMAIN active_connections
    /\ active_connections' = connect(active_connections, "ws1", session_id)
    /\ outbox' = [outbox EXCEPT
                    ![session_id] = <<Message("connected", session_id)>>]
    /\ last_call' = [op |-> "connect", session_id |-> session_id]
    /\ UNCHANGED <<processing_sessions, created, pipelines, verifications,
                   loopvars>>

\* lines 409-413: the client closed the websocket
WsDisconnect(session_id) ==
    /\ session_id \in DOMAIN active_connections
    /\ LET d == disconnect(active_connections, processing_sessions, session_id)
       IN  /\ active_connections' = d[1]
           /\ processing_sessions' = d[2]
    /\ created' = created \ {session_id}
    /\ last_call' = [op |-> "disconnect", session_id |-> session_id]
    /\ UNCHANGED <<workvars, loopvars>>

\* lines 237-273: the transcript was fetched (fragments of 40 s, back to
\* back)
PipelineStart(session_id) ==
    /\ pipelines[session_id].pc = "queued"
    /\ \E transcript \in { Stream(k, 40) : k \in 0..MaxChunks } :
          LET cs == api_chunk_transcript(transcript, 60)
          IN  /\ pipelines' =
                    [pipelines EXCEPT
                       ![session_id].pc =
                           IF cs = <<>> THEN "sleeping" ELSE "extracting",
                       ![session_id].chunks = cs,
                       ![session_id].i = 0]
              /\ outbox' =
                    send_message(outbox, active_connections, session_id,
                       <<Message("status", "fetching_transcript"),
                         Message("status", "chunking"),
                         Message("status", "extracting_claims")>>)
    /\ UNCHANGED <<managervars, verifications, loopvars>>

\* lines 246, 259-261, 333-339: fetch_transcript raised, or no API key
PipelineFails(session_id) ==
    /\ pipelines[session_id].pc = "queued"
    /\ pipelines' = [pipelines EXCEPT ![session_id].pc = "failed"]
    /\ \E sent \in { <<Message("status", "fetching_transcript")>>,
                     <<Message("status", "fetching_transcript"),
                       Message("status", "chunking")>> } :
          outbox' = send_message(outbox, active_connections, session_id,
                                 sent \o <<Message("error", "error")>>)
    /\ UNCHANGED <<managervars, verifications, loopvars>>

\* line 305, for claims whose importance_score is in tenths
HighImportance(claims) ==
    SelectSeq(claims, LAMBDA claim : claim.importance_score >= 7)

\* after chunk i of the loop of lines 274-313: the loop goes on or ends
AfterChunk(p) ==
    [p EXCEPT !.i = @ + 1,
              !.pc = IF p.i + 1 = Len(p.chunks) THEN "sleeping"
                     ELSE "extracting"]

\* lines 276-309: aextract returned for chunk i
PipelineExtractorReturns(session_id) ==
    /\ pipelines[session_id].pc = "extracting"
    /\ \E claims \in ExtractionOutputs :
          LET p == pipelines[session_id]
              high == HighImportance(claims)
          IN  /\ pipelines' =
                    [pipelines EXCEPT
                       ![session_id] =
                           [AfterChunk(p) EXCEPT
                              !.all_claims = @ \o claims]]
              /\ outbox' =
                    send_message(outbox, active_connections, session_id,
                       <<Message("extraction_progress",
                                 [chunk |-> p.i + 1,
                                  total_chunks |-> Len(p.chunks),
                                  claims_found |-> Len(claims)])>>
                       \o [k \in 1..Len(claims) |->
                              Message("claim_extracted", claims[k])])
              /\ verifications' =
                    verifications \o
                    [k \in 1..Len(high) |->
                        [session_id |-> session_id, claim |-> high[k],
                         pc |-> "created"]]
    /\ UNCHANGED <<managervars, loopvars>>

\* lines 276, 311-313: aextract raised for chunk i
PipelineExtractorRaises(session_id) ==
    /\ pipelines[session_id].pc = "extracting"
    /\ pipelines' =
          [pipelines EXCEPT ![session_id] = AfterChunk(pipelines[session_id])]
    /\ UNCHANGED <<managervars, verifications, outbox, loopvars>>

\* lines 316-331: the two seconds are over; the tasks created before the
\* sleep have run up to their first await of the verifier by then
PipelineWake(session_id) ==
    /\ pipelines[session_id].pc = "sleeping"
    /\ \A t \in DOMAIN verifications :
          verifications[t].session_id = session_id
          => verifications[t].pc # "created"
    /\ LET p == pipelines[session_id]
           high_importance_count == Len(HighImportance(p.all_claims))
       IN  outbox' =
              send_message(outbox, active_connections, session_id,
                 <<Message("complete",
                           [total_claims |-> Len(p.all_claims),
                            verified_claims |-> high_importance_count,
                            video_id |-> p.video_id])>>)
    /\ pipelines' = [pipelines EXCEPT ![session_id].pc = "completed"]
    /\ UNCHANGED <<managervars, verifications, loopvars>>

\* lines 181-189: task t runs up to the verifier call
TaskStart(t) ==
    /\ verifications[t].pc = "created"
    /\ \A u \in 1..(t - 1) : verifications[u].pc # "created"
    /\ verifications' = [verifications EXCEPT ![t].pc = "verifying"]
    /\ outbox' =
          send_message(outbox, active_connections, verifications[t].session_id,
             <<Message("verification_start",
                       verifications[t].claim.claim_text)>>)
    /\ UNCHANGED <<managervars, pipelines, loopvars>>

\* lines 189-223: orchestrator.verify_claim returned
TaskVerifierReturns(t) ==
    /\ verifications[t].pc = "verifying"
    /\ verifications' = [verifications EXCEPT ![t].pc = "done"]
    /\ \E verification_result \in VerdictTexts :
          LET v == ParseVerdict(verification_result)
          IN  outbox' =
                 send_message(outbox, active_connections,
                    verifications[t].session_id,
                    <<Message("claim_verified",
                         [claim_text |-> verifications[t].claim.claim_text,
                          verification_status |-> v.verification_status,
                          verification_score |-> v.verification_score,
                          verification_summary |->
                              Slice(verification_result, 500)])>>)
    /\ UNCHANGED <<managervars, pipelines, loopvars>>

\* lines 189, 225-226: orchestrator.verify_claim raised
TaskVerifierRaises(t) ==
    /\ verifications[t].pc = "verifying"
    /\ verifications' = [verifications EXCEPT ![t].pc = "done"]
    /\ UNCHANGED <<managervars, pipelines, outbox, loopvars>>

NextServer ==
    \/ \E session_id \in ServerSessions : ProcessVideo(session_id)
    \/ \E session_id \in ServerSessions : WsConnect(session_id)
    \/ \E session_id \in ServerSessions : WsDisconnect(session_id)
    \/ \E session_id \in ServerSessions : PipelineStart(session_id)
    \/ \E session_id \in ServerSessions : PipelineFails(session_id)
    \/ \E session_id \in ServerSessions : PipelineExtractorReturns(session_id)
    \/ \E session_id \in ServerSessions : PipelineExtractorRaises(session_id)
    \/ \E session_id \in ServerSessions : PipelineWake(session_id)
    \/ \E t \in DOMAIN verifications : TaskStart(t)
    \/ \E t \in DOMAIN verifications : TaskVerifierReturns(t)
    \/ \E t \in DOMAIN verifications : TaskVerifierRaises(t)

SpecServer == InitManager /\ [][NextServer]_vars


(***************************************************************************)
(* ClaimVerificationOrchestrator.verify_claim (claim_verification/         *)
(* orchestrator.py lines 207-256; agents/claim_verification/               *)
(* orchestrator.py lines 162-205 is the same without the context           *)
(* arguments): five specialists under one gather, then the synthesis.      *)
(***************************************************************************)
\* lines 154-160, in the order of agent_tasks (lines 225-231)
agent_names == <<"News Verification Agent", "Academic Research Agent",
                 "Fact-Check Agent", "Government Data Agent",
                 "Temporal Analysis Agent">>

\* as CollectAgentResults, but a failed specialist gets no entry
CollectAgentResultsDropping(results) ==
    LET kept == SelectSeq(results, LAMBDA r : ~r.raised)
    IN  [a \in 1..Len(kept) |-> kept[a].value]

\* lines 234-242
CollectAgentResults(results) ==
    [a \in 1..Len(results) |->
        IF results[a].raised THEN <<"Error: ", results[a].err>>
        ELSE results[a].value]

\* lines 152-167: the (name, result) pairs that go into the synthesis prompt
format_agent_results(results) ==
    LET n == IF Len(results) < Len(agent_names) THEN Len(results)
             ELSE Len(agent_names)
        zipped == [a \in 1..n |-> <<agent_names[a], results[a]>>]
    IN  SelectSeq(zipped,
                  LAMBDA z : /\ z[2] # <<>>
                             /\ z[2][1] # "Error: "
                             /\ z[2][1] # "Verification failed: ")

serverrest == <<servervars, chunk_size_seconds, max_parallel_extractions,
                max_parallel_verifications, transcript_raw, video_id, other,
                winvars, pc, video_context, summary_context, extractvars,
                verifyvars, agentvars>>

\* lines 219-235: the five coroutines are made and gather starts them
VerifyClaimBegin ==
    /\ vpc = "start"
    /\ vpc' = "gathering"
    /\ specialists' = [a \in 1..5 |-> NotCalled]
    /\ UNCHANGED <<agent_results, synthesis, serverrest>>

\* specialist a's verify returned
SpecialistReturns(a) ==
    /\ vpc = "gathering"
    /\ ~specialists[a].called
    /\ \E result \in { <<"finding">>, <<"Verification failed: ", "no tools">> } :
          specialists' = [specialists EXCEPT ![a] = CallReturned(result)]
    /\ UNCHANGED <<vpc, agent_results, synthesis, serverrest>>

\* specialist a's verify raised
SpecialistRaises(a) ==
    /\ vpc = "gathering"
    /\ ~specialists[a].called
    /\ \E e \in {"overloaded"} :
          specialists' = [specialists EXCEPT ![a] = CallRaised(e)]
    /\ UNCHANGED <<vpc, agent_results, synthesis, serverrest>>

\* lines 235-250: gather returned; the results are collected and
\* orchestrator.verify is called with them
Synthesise ==
    /\ vpc = "gathering"
    /\ \A a \in DOMAIN specialists : specialists[a].called
    /\ LET collected == CollectAgentResults(specialists)
       IN  /\ agent_results' = collected
           /\ synthesis' = [calls |-> synthesis.calls + 1,
                            findings |-> format_agent_results(collected)]
    /\ vpc' = "synthesising"
    /\ UNCHANGED <<specialists, serverrest>>

\* lines 246-256: orchestrator.verify returned or raised
SynthesisEnds ==
    /\ vpc = "synthesising"
    /\ vpc' = "returned"
    /\ UNCHANGED <<specialists, agent_results, synthesis, serverrest>>

InitOrchestrator ==
    /\ chunk_size_seconds = 3
    /\ max_parallel_extractions = 1
    /\ max_parallel_verifications = 1
    /\ transcript_raw = <<>>
    /\ video_id = "vid"
    /\ WindowIdle
    /\ pc = "idle"
    /\ PipelineIdle
    /\ other = OtherIdle
    /\ ManagerInit
    /\ pipelines = [id \in SessionIds |-> PipelineNotStarted]
    /\ verifications = <<>>
    /\ outbox = [id \in SessionIds |-> <<>>]
    /\ vpc = "start"
    /\ specialists = <<>>
    /\ agent_results = <<>>
    /\ synthesis = [calls |-> 0, findings |-> <<>>]
    /\ apc = "idle"
    /\ chain_result = <<>>
    /\ unique_claims = <<>>

NextOrchestrator ==
    \/ VerifyClaimBegin
    \/ \E a \in DOMAIN specialists : SpecialistReturns(a)
    \/ \E a \in DOMAIN specialists : SpecialistRaises(a)
    \/ Synthesise
    \/ SynthesisEnds

SpecOrchestrator == InitOrchestrator /\ [][NextOrchestrator]_vars


(***************************************************************************)
(* ClaimExtractionAgent.aextract (claim_extraction/agent.py lines          *)
(* 161-186): the chain's claims, deduplicated by claim text.  Claim texts  *)
(* are sequences of characters here.                                       *)
(***************************************************************************)
MaxRaw == 3

\* str.lower()
Lower(str) ==
    [n \in 1..Len(str) |->
        IF \E k \in 1..26 : Letters.upper[k] = str[n]
        THEN Letters.lower[CHOOSE k \in 1..26 : Letters.upper[k] = str[n]]
        ELSE str[n]]

ClaimKeyExact(claim) == Strip(claim.claim_text)

\* line 174
ClaimKey(claim) == Strip(Lower(claim.claim_text))

\* lines 170-177: the loop, from the claims still to look at
RECURSIVE UniqueLoop(_, _, _)
UniqueLoop(claims, seen_claims, unique) ==
    IF claims = <<>> THEN unique
    ELSE LET claim_key == ClaimKey(Head(claims))
         IN  IF claim_key \notin seen_claims
             THEN UniqueLoop(Tail(claims), seen_claims \cup {claim_key},
                             Append(unique, Head(claims)))
             ELSE UniqueLoop(Tail(claims), seen_claims, unique)

\* what the model may give as claims: texts that differ in case and blanks
\* only, said at two different times
ChainClaims ==
    { ClaimMinimal("vid", start, start + 1, text, "Speaker", 8) :
         start \in {1, 2},
         text \in { <<"a">>, <<"A">>, <<" ", "a">>, <<"b">> } }

\* everything but aextract's locals
agentrest == <<servervars, orchvars, chunk_size_seconds,
               max_parallel_extractions, max_parallel_verifications,
               transcript_raw, video_id, other, winvars, pc, video_context,
               summary_context, extractvars, verifyvars>>

\* lines 165-179: the chain returned an ExtractionOutput
ChainReturns ==
    /\ apc = "awaiting"
    /\ apc' = "returned"
    /\ \E claims \in UNION { [1..n -> ChainClaims] : n \in 0..MaxRaw } :
          /\ chain_result' = claims
          /\ unique_claims' = UniqueLoop(claims, {}, <<>>)
    /\ UNCHANGED agentrest

\* lines 181-186: the chain raised, or returned something else
ChainFails ==
    /\ apc = "awaiting"
    /\ apc' = "returned"
    /\ unique_claims' = <<>>
    /\ UNCHANGED <<chain_result, agentrest>>

InitAgent ==
    /\ chunk_size_seconds = 3
    /\ max_parallel_extractions = 1
    /\ max_parallel_verifications = 1
    /\ transcript_raw = <<>>
    /\ video_id = "vid"
    /\ WindowIdle
    /\ pc = "idle"
    /\ PipelineIdle
    /\ other = OtherIdle
    /\ ManagerInit
    /\ pipelines = [id \in SessionIds |-> PipelineNotStarted]
    /\ verifications = <<>>
    /\ outbox = [id \in SessionIds |-> <<>>]
    /\ vpc = "idle"
    /\ specialists = <<>>
    /\ agent_results = <<>>
    /\ synthesis = [calls |-> 0, findings |-> <<>>]
    /\ apc = "awaiting"
    /\ chain_result = <<>>
    /\ unique_claims = <<>>

NextAgent == ChainReturns \/ ChainFails

SpecAgent == InitAgent /\ [][NextAgent]_vars


(***************************************************************************)
(* What the collaborators returned, for stating the properties             *)
(***************************************************************************)
Started == pc \in {"extracting", "verifying", "done"}
ExtractionDrained == pc \in {"verifying", "done"}

\* the raw items the extractor returned for the chunks from the i-th on, each
\* with the chunk it was extracted from
RECURSIVE ReturnedItemsFrom(_)
ReturnedItemsFrom(i) ==
    IF i > Len(chunks) THEN <<>>
    ELSE (IF extractor_calls[i].called /\ ~extractor_calls[i].raised
          THEN [k \in 1..Len(extractor_calls[i].value) |->
                   [raw |-> extractor_calls[i].value[k], chunk |-> chunks[i]]]
          ELSE <<>>) \o ReturnedItemsFrom(i + 1)

ReturnedItems == ReturnedItemsFrom(1)

IsSentinel(claim) == claim.start_s = 0 /\ claim.end_s = 0

\* a returned item as it goes on: with its chunk's bounds if it had none
BackfilledItem(item) ==
    IF IsSentinel(item.raw)
    THEN [item.raw EXCEPT !.start_s = item.chunk.start_s,
                          !.end_s = item.chunk.end_s]
    ELSE item.raw

FailedExtractions ==
    {i \in DOMAIN extractor_calls : extractor_calls[i].raised}
FailedVerifications ==
    {j \in DOMAIN verifier_calls : verifier_calls[j].raised}

(***************************************************************************)
(* C1: at any moment at most max_parallel_extractions extraction tasks     *)
(* hold the extraction semaphore (are in, or about to enter, the extractor *)
(* call) and at most max_parallel_verifications verification tasks hold    *)
(* the verification semaphore; each stage is accounted by its own          *)
(* semaphore (free permits + holders = that stage's limit), and a task     *)
(* beyond the limit is queued in the semaphore's waiters.                  *)
(***************************************************************************)
C1_BoundedConcurrency ==
    /\ Started =>
          /\ Cardinality(Holders(extraction_tasks)) <= max_parallel_extractions
          /\ semaphore_extract.value + Cardinality(Holders(extraction_tasks))
                = max_parallel_extractions
          /\ \A i \in DOMAIN extraction_tasks :
                extraction_tasks[i] \notin {"pending", "done"}
                   /\ i \notin Holders(extraction_tasks)
                => \E n \in DOMAIN semaphore_extract.waiters :
                      semaphore_extract.waiters[n] = i
    /\ pc \in {"verifying", "done"} /\ all_claims # <<>> =>
          /\ Cardinality(Holders(verification_tasks))
                <= max_parallel_verifications
          /\ semaphore_verify.value + Cardinality(Holders(verification_tasks))
                = max_parallel_verifications
          /\ \A j \in DOMAIN verification_tasks :
                verification_tasks[j] \notin {"pending", "done"}
                   /\ j \notin Holders(verification_tasks)
                => \E n \in DOMAIN semaphore_verify.waiters :
                      semaphore_verify.waiters[n] = j

\* both limits differ, the verification limit is reached and a verification
\* task waits, after an extraction stage of two chunks under limit 1
C1_Witness ==
    /\ pc = "verifying"
    /\ max_parallel_extractions = 1
    /\ max_parallel_verifications = 2
    /\ Len(chunks) = 2
    /\ Cardinality(Holders(verification_tasks)) = 2
    /\ \E j \in DOMAIN verification_tasks : verification_tasks[j] = "waiting"

(***************************************************************************)
(* C2: a failing collaborator call leaves the sibling tasks alone: the     *)
(* result of every finished task whose call did not fail is at its own     *)
(* position and is what its own call returned (with the chunk's id, resp.  *)
(* the item's claim and chunk id); the items sent to verification are the  *)
(* items of the non-failing chunks, in order, none from a failing chunk;   *)
(* and no task is left waiting for a permit that nobody holds (when the    *)
(* limit is at least 1), so every sibling can run to completion.           *)
(***************************************************************************)
C2_FailureIsolation ==
    /\ Started =>
          /\ \A i \in DOMAIN extraction_tasks :
                extraction_tasks[i] = "done" /\ ~extractor_calls[i].raised
                => extraction_results[i] =
                      Returned(<<Backfill(chunks[i], extractor_calls[i].value),
                                 chunks[i].chunk_id>>)
          /\ (max_parallel_extractions >= 1
                 /\ \E i \in DOMAIN extraction_tasks :
                       extraction_tasks[i] = "waiting")
             => Holders(extraction_tasks) # {}
    /\ ExtractionDrained =>
          /\ Len(all_claims) = Len(ReturnedItems)
          /\ \A j \in DOMAIN all_claims :
                /\ all_claims[j][1].claim_text = ReturnedItems[j].raw.claim_text
                /\ all_claims[j][2] = ReturnedItems[j].chunk.chunk_id
    /\ pc \in {"verifying", "done"} /\ all_claims # <<>> =>
          /\ \A j \in DOMAIN verification_tasks :
                verification_tasks[j] = "done" /\ ~verifier_calls[j].raised
                => /\ ~verified_claims[j].raised
                   /\ verified_claims[j].value.claim = all_claims[j][1]
                   /\ verified_claims[j].value.chunk_id = all_claims[j][2]
                   /\ verified_claims[j].value.verification_result
                         = <<verifier_calls[j].value>>
          /\ (max_parallel_verifications >= 1
                 /\ \E j \in DOMAIN verification_tasks :
                       verification_tasks[j] = "waiting")
             => Holders(verification_tasks) # {}
    /\ pc = "done" /\ all_claims # <<>> =>
          \A j \in DOMAIN verifier_calls :
             ~verifier_calls[j].raised
             => /\ j \in DOMAIN final_results
                /\ final_results[j] = verified_claims[j].value

\* the extractor failed for the first of two chunks, the second chunk's two
\* items went on, the verifier failed for one of them, and the run finished
C2_Witness ==
    /\ pc = "done"
    /\ Len(chunks) = 2
    /\ extractor_calls[1].raised
    /\ ~extractor_calls[2].raised
    /\ Len(final_results) = 2
    /\ verifier_calls[1].raised
    /\ ~verifier_calls[2].raised
    /\ final_results[2].chunk_id = 1

(***************************************************************************)
(* C3: a stage is left only when every task of it is done: whenever        *)
(* process_transcript is past the extraction gather, every extraction task *)
(* has finished and has its outcome, and whenever it has returned after    *)
(* verification, every verification task has finished and has its outcome. *)
(***************************************************************************)
C3_FullJoin ==
    /\ ExtractionDrained =>
          \A i \in DOMAIN extraction_tasks :
             /\ extraction_tasks[i] = "done"
             /\ extractor_calls[i].called
             /\ extraction_results[i] # NotYet
    /\ pc = "done" =>
          \A j \in DOMAIN verification_tasks :
             /\ verification_tasks[j] = "done"
             /\ verifier_calls[j].called
             /\ verified_claims[j] # NotYet

\* both stages were left although a task of each had failed
C3_Witness ==
    /\ pc = "done"
    /\ Len(chunks) = 2
    /\ extractor_calls[1].raised
    /\ Len(verification_tasks) = 2
    /\ verifier_calls[1].raised


(***************************************************************************)
(* C4: whatever order the tasks finish in, position i of a stage's results *)
(* belongs to work item i, and the returned list is ordered by chunk_id    *)
(* (non-decreasing) and, within a chunk, as the extractor returned the     *)
(* items.                                                                  *)
(***************************************************************************)
ItemsOfChunk(results, id) == SelectSeq(results, LAMBDA r : r.chunk_id = id)
ClaimTexts(claims) == [k \in 1..Len(claims) |-> claims[k].claim_text]
ResultTexts(results) == [k \in 1..Len(results) |-> results[k].claim.claim_text]

C4_StableOrder ==
    /\ Started =>
          \A i \in DOMAIN extraction_tasks :
             extraction_tasks[i] = "done"
             => /\ ~extraction_results[i].raised
                /\ extraction_results[i].value[2] = chunks[i].chunk_id
                /\ ClaimTexts(extraction_results[i].value[1])
                      = ClaimTexts(extractor_calls[i].value)
    /\ pc \in {"verifying", "done"} /\ all_claims # <<>> =>
          \A j \in DOMAIN verification_tasks :
             verification_tasks[j] = "done"
             => /\ verified_claims[j].value.claim = all_claims[j][1]
                /\ verified_claims[j].value.chunk_id = all_claims[j][2]
    /\ pc = "done" =>
          /\ \A p, q \in DOMAIN final_results :
                p < q => final_results[p].chunk_id <= final_results[q].chunk_id
          /\ \A i \in DOMAIN chunks :
                ResultTexts(ItemsOfChunk(final_results, chunks[i].chunk_id))
                   = ClaimTexts(extractor_calls[i].value)

\* two chunks whose items came back in opposite orders, all four verified
C4_Witness ==
    /\ pc = "done"
    /\ Len(chunks) = 2
    /\ extractor_calls[1].value = <<UntimedClaim, TimedClaim>>
    /\ extractor_calls[2].value = <<TimedClaim, UntimedClaim>>
    /\ Len(final_results) = 4

(***************************************************************************)
(* C5: the returned list has exactly one VerifiedClaim per item that the   *)
(* extraction stage passed on, in the same order; the item whose verifier  *)
(* call failed is there with the verdict "Verification failed: <error>",   *)
(* every other item carries the verifier's verdict, and the failure marker *)
(* is on exactly the items whose verifier call failed.                     *)
(***************************************************************************)
C5_NoSilentLoss ==
    pc = "done" =>
       /\ Len(final_results) = Len(ReturnedItems)
       /\ Len(final_results) = Len(all_claims)
       /\ \A j \in DOMAIN final_results :
             /\ final_results[j].claim = all_claims[j][1]
             /\ final_results[j].chunk_id = all_claims[j][2]
             /\ verifier_calls[j].raised =>
                   final_results[j].verification_result
                      = <<"Verification failed: ", verifier_calls[j].err>>
             /\ ~verifier_calls[j].raised =>
                   final_results[j].verification_result
                      = <<verifier_calls[j].value>>
             /\ IsFailureMarker(final_results[j].verification_result)
                   <=> verifier_calls[j].raised

\* four items, the verifier failed on the odd-indexed ones (the 2nd and 4th)
C5_Witness ==
    /\ pc = "done"
    /\ Len(final_results) = 4
    /\ FailedVerifications = {2, 4}
    /\ IsFailureMarker(final_results[2].verification_result)
    /\ ~IsFailureMarker(final_results[3].verification_result)

(***************************************************************************)
(* C6: when process_transcript finishes, the number of extraction failures *)
(* it has recorded equals the number of chunks whose extractor call        *)
(* failed, and what it holds for a failed chunk differs from what it holds *)
(* for a chunk that yielded no items.                                      *)
(***************************************************************************)
C6_ExtractionFailuresReported ==
    pc = "done" =>
       /\ extraction_failures = Cardinality(FailedExtractions)
       /\ \A i, k \in DOMAIN chunks :
             extractor_calls[i].raised /\ ~extractor_calls[k].raised
                /\ extractor_calls[k].value = <<>>
             => \/ extraction_results[i].raised # extraction_results[k].raised
                \/ extraction_results[i].value[1] # extraction_results[k].value[1]
                \/ total_claims_by_chunk[chunks[i].chunk_id]
                      # total_claims_by_chunk[chunks[k].chunk_id]

(***************************************************************************)
(* C7: when process_transcript finishes, the number of verification        *)
(* failures it has recorded equals the number of items whose verifier call *)
(* failed, which equals the number of returned items that carry the        *)
(* failure marker.                                                         *)
(***************************************************************************)
MarkedResults ==
    {j \in DOMAIN final_results :
        IsFailureMarker(final_results[j].verification_result)}

C7_VerificationFailuresReported ==
    pc = "done" =>
       /\ verification_failures = Cardinality(FailedVerifications)
       /\ Cardinality(FailedVerifications) = Cardinality(MarkedResults)

(***************************************************************************)
(* C8: process_transcript raises only for an invalid configuration (a      *)
(* negative limit, which asyncio.Semaphore rejects); whatever collaborator *)
(* calls fail, it returns, and the returned list has an entry for every    *)
(* item the extractor returned.                                            *)
(***************************************************************************)
C8_NeverRaises ==
    /\ pc = "raised" =>
          max_parallel_extractions < 0 \/ max_parallel_verifications < 0
    /\ pc = "done" =>
          /\ \A i \in DOMAIN chunks : extractor_calls[i].called
          /\ Len(final_results) = Len(ReturnedItems)
          /\ \A j \in DOMAIN final_results :
                final_results[j].claim.claim_text
                   = ReturnedItems[j].raw.claim_text

\* every verifier call failed and an extractor call failed, and the call
\* returned
C8_Witness ==
    /\ pc = "done"
    /\ Len(chunks) = 2
    /\ extractor_calls[2].raised
    /\ Len(final_results) = 2
    /\ FailedVerifications = {1, 2}

(***************************************************************************)
(* C9: an item the extractor returned with start_s = 0 and end_s = 0 has   *)
(* the start_s and end_s of the chunk it was extracted from (the chunk     *)
(* whose id is its chunk_id) in its task's result, in the list sent to     *)
(* verification and in the returned list.                                  *)
(***************************************************************************)
HasChunkTiming(claim, chunk) ==
    claim.start_s = chunk.start_s /\ claim.end_s = chunk.end_s

C9_SentinelBackfill ==
    /\ Started =>
          \A i \in DOMAIN extraction_tasks :
             extraction_tasks[i] = "done" /\ ~extractor_calls[i].raised
             => \A k \in DOMAIN extractor_calls[i].value :
                   IsSentinel(extractor_calls[i].value[k])
                   => HasChunkTiming(extraction_results[i].value[1][k],
                                     chunks[i])
    /\ ExtractionDrained =>
          /\ Len(all_claims) = Len(ReturnedItems)
          /\ \A j \in DOMAIN all_claims :
                IsSentinel(ReturnedItems[j].raw)
                => /\ chunks[all_claims[j][2] + 1] = ReturnedItems[j].chunk
                   /\ HasChunkTiming(all_claims[j][1],
                                     chunks[all_claims[j][2] + 1])
    /\ pc = "done" =>
          /\ Len(final_results) = Len(ReturnedItems)
          /\ \A j \in DOMAIN final_results :
                IsSentinel(ReturnedItems[j].raw)
                => HasChunkTiming(final_results[j].claim,
                                  chunks[final_results[j].chunk_id + 1])

\* an untimed item of the second chunk (4 s to 8 s) was returned with the
\* chunk's bounds, beside a timed item that kept its own
C9_Witness ==
    /\ pc = "done"
    /\ Len(chunks) = 2
    /\ chunks[2].start_s = 4
    /\ extractor_calls[2].value = <<TimedClaim, UntimedClaim>>
    /\ \E j \in DOMAIN final_results :
          /\ final_results[j].chunk_id = 1
          /\ final_results[j].claim.claim_text = UntimedClaim.claim_text
          /\ final_results[j].claim.start_s = 4
          /\ final_results[j].claim.end_s = 8


(***************************************************************************)
(* C10: the split rule.  Reference: take the fragments whose text is not   *)
(* empty after trimming; a chunk is anchored at its first fragment and     *)
(* takes the following fragments f as long as                              *)
(*     f.start + f.duration - anchor.start <= chunk_size_seconds;          *)
(* the first f for which the difference is strictly greater closes the     *)
(* chunk and anchors the next one.  chunk_transcript returns the chunks of *)
(* this rule, for every fragment stream.                                   *)
(***************************************************************************)
NonEmptyFragments(transcript) ==
    SelectSeq(transcript, LAMBDA f : Strip(f.text) # <<>>)

Fits(f, anchor) == f.start + f.duration - anchor.start <= chunk_size_seconds

\* number of fragments of the chunk anchored at frs[1]
RefTake(frs) ==
    CHOOSE n \in 1..Len(frs) :
       /\ \A k \in 2..n : Fits(frs[k], frs[1])
       /\ n = Len(frs) \/ ~Fits(frs[n + 1], frs[1])

RECURSIVE RefGroups(_)
RefGroups(frs) ==
    IF frs = <<>> THEN <<>>
    ELSE <<SubSeq(frs, 1, RefTake(frs))>>
            \o RefGroups(SubSeq(frs, RefTake(frs) + 1, Len(frs)))

RECURSIVE MaxFragmentEnd(_)
MaxFragmentEnd(frs) ==
    IF Len(frs) = 1 THEN frs[1].start + frs[1].duration
    ELSE Max(frs[1].start + frs[1].duration, MaxFragmentEnd(Tail(frs)))

RefChunk(group, id) ==
    [chunk_id |-> id,
     start_s |-> group[1].start,
     end_s |-> MaxFragmentEnd(group),
     text |-> Join([k \in 1..Len(group) |-> Strip(group[k].text)]),
     video_id |-> video_id]

RefChunks(transcript) ==
    LET groups == RefGroups(NonEmptyFragments(transcript))
    IN  [g \in 1..Len(groups) |-> RefChunk(groups[g], g - 1)]

C10_SplitRule ==
    cpc = "returned" => win.chunks = RefChunks(transcript_raw)

\* the second fragment ends one second over the span measured from the first
\* fragment's start: the first chunk is closed and a second one is opened
C10_Witness ==
    /\ cpc = "returned"
    /\ Len(NonEmptyFragments(transcript_raw)) = 2
    /\ LET frs == NonEmptyFragments(transcript_raw)
       IN  frs[2].start + frs[2].duration - frs[1].start
              = chunk_size_seconds + 1
    /\ Len(win.chunks) = 2
    /\ win.chunks[2].start_s = NonEmptyFragments(transcript_raw)[2].start


(***************************************************************************)
(* The fragments of a chunk, as the loop assigns them: a fragment that is  *)
(* not skipped belongs to the chunk that is open once the loop has taken   *)
(* it, and that chunk is closed under the id chunk_id has at that point.   *)
(***************************************************************************)
ChunkIdAfter(n) ==
    RunLoop(WindowInit, SubSeq(transcript_raw, 1, n)).chunk_id

FragmentsOf(id) ==
    {n \in DOMAIN transcript_raw :
        Strip(transcript_raw[n].text) # <<>> /\ ChunkIdAfter(n) = id}

TrimmedTexts(frs) == [k \in 1..Len(frs) |-> Strip(frs[k].text)]

\* sizes[1] + ... + sizes[k]
RECURSIVE SumTo(_, _)
SumTo(sizes, k) == IF k = 0 THEN 0 ELSE sizes[k] + SumTo(sizes, k - 1)

(***************************************************************************)
(* C11: the returned chunks partition the input.  The list is in id order, *)
(* and the non-empty (after trimming) fragments, in input order, can be    *)
(* cut into as many consecutive non-empty runs as there are chunks, so     *)
(* that the text of the k-th chunk is the trimmed texts of the k-th run    *)
(* joined by single spaces: no fragment is lost, duplicated or reordered.  *)
(***************************************************************************)
C11_Partition ==
    cpc = "returned" =>
       LET frs == NonEmptyFragments(transcript_raw)
           cs == win.chunks
       IN  /\ \A k, l \in DOMAIN cs : k < l => cs[k].chunk_id < cs[l].chunk_id
           /\ \E sizes \in [1..Len(cs) -> 1..Len(frs)] :
                 /\ SumTo(sizes, Len(cs)) = Len(frs)
                 /\ \A k \in 1..Len(cs) :
                       cs[k].text =
                          Join(SubSeq(TrimmedTexts(frs),
                                      SumTo(sizes, k - 1) + 1,
                                      SumTo(sizes, k)))

\* two fragments, the second with spaces around and inside its text, went
\* into one chunk whose text is "a b c"
C11_Witness ==
    /\ cpc = "returned"
    /\ Len(transcript_raw) = 2
    /\ transcript_raw[2].text = <<" ", "b", " ", "c", " ">>
    /\ Len(win.chunks) = 1
    /\ win.chunks[1].text = <<"a", " ", "b", " ", "c">>

MinStart(S) ==
    CHOOSE m \in {transcript_raw[n].start : n \in S} :
       \A n \in S : m <= transcript_raw[n].start

MaxEnd(S) ==
    CHOOSE m \in {transcript_raw[n].start + transcript_raw[n].duration : n \in S} :
       \A n \in S : m >= transcript_raw[n].start + transcript_raw[n].duration

C13_MinMaxBounds ==
    cpc = "returned" /\ chunk_size_seconds > 0 =>
       \A k \in DOMAIN win.chunks :
          LET S == FragmentsOf(win.chunks[k].chunk_id)
          IN  /\ S # {}
              /\ win.chunks[k].start_s = MinStart(S)
              /\ win.chunks[k].end_s = MaxEnd(S)

(***************************************************************************)
(* C14: fragments whose text is empty after trimming have no effect.  At   *)
(* every point of the loop the accumulator is what the loop computes from  *)
(* the non-empty fragments taken so far, a chunk is open only if a         *)
(* non-empty fragment was taken, and the returned list is the list         *)
(* returned for the stream without its empty fragments.                    *)
(***************************************************************************)
TakenSoFar == SubSeq(transcript_raw, 1, next_item - 1)

C14_BlankFragmentsIgnored ==
    /\ cpc = "loop" => win = RunLoop(WindowInit, NonEmptyFragments(TakenSoFar))
    /\ cpc # "idle" /\ win.current_start # None =>
          NonEmptyFragments(TakenSoFar) # <<>>
    /\ cpc = "returned" =>
          win.chunks = chunk_transcript(NonEmptyFragments(transcript_raw))

\* a blank fragment far from the fragment that follows it, in time and in
\* length, left the only chunk with the bounds of that fragment
C14_Witness ==
    /\ cpc = "returned"
    /\ Len(transcript_raw) = 2
    /\ Strip(transcript_raw[1].text) = <<>>
    /\ transcript_raw[1].start = MaxStart
    /\ transcript_raw[1].duration = MaxDuration
    /\ transcript_raw[2].start = 0
    /\ Len(win.chunks) = 1
    /\ win.chunks[1].start_s = 0
    /\ win.chunks[1].end_s = transcript_raw[2].duration

(***************************************************************************)
(* C15: a fragment is never split and the first fragment of a chunk is     *)
(* accepted whatever its duration.  Every returned chunk contains at least *)
(* one fragment, every non-empty fragment is in a returned chunk, the      *)
(* first chunk starts with the first non-empty fragment, and when the      *)
(* non-empty fragments are ordered by start and each lasts longer than     *)
(* chunk_size_seconds, the k-th chunk is exactly the k-th non-empty        *)
(* fragment.                                                               *)
(***************************************************************************)
TimeOrdered(frs) == \A k \in 1..(Len(frs) - 1) : frs[k].start <= frs[k + 1].start

C15_WholeFragments ==
    cpc = "returned" =>
       LET frs == NonEmptyFragments(transcript_raw)
       IN  /\ \A k \in DOMAIN win.chunks :
                 FragmentsOf(win.chunks[k].chunk_id) # {}
           /\ \A n \in DOMAIN transcript_raw :
                 Strip(transcript_raw[n].text) # <<>>
                 => \E k \in DOMAIN win.chunks :
                       win.chunks[k].chunk_id = ChunkIdAfter(n)
           /\ frs # <<>> =>
                 /\ win.chunks # <<>>
                 /\ win.chunks[1].start_s = frs[1].start
           /\ (/\ TimeOrdered(frs)
               /\ \A k \in DOMAIN frs : frs[k].duration > chunk_size_seconds)
              => /\ Len(win.chunks) = Len(frs)
                 /\ \A k \in DOMAIN frs :
                       win.chunks[k] =
                          TranscriptChunk(k - 1, frs[k].start,
                                          frs[k].start + frs[k].duration,
                                          Strip(frs[k].text), video_id)

\* two fragments in time order, each twice as long as the span: two chunks
C15_Witness ==
    /\ cpc = "returned"
    /\ chunk_size_seconds = 1
    /\ Len(transcript_raw) = 2
    /\ TimeOrdered(transcript_raw)
    /\ \A n \in DOMAIN transcript_raw :
          /\ Strip(transcript_raw[n].text) # <<>>
          /\ transcript_raw[n].duration = 2
    /\ Len(win.chunks) = 2

(***************************************************************************)
(* C16: the k-th chunk of the list (counting from 0) has chunk_id k, and   *)
(* while the loop runs chunk_id is the number of chunks closed so far.     *)
(***************************************************************************)
C16_SequentialIds ==
    /\ \A k \in DOMAIN win.chunks : win.chunks[k].chunk_id = k - 1
    /\ cpc = "loop" => win.chunk_id = Len(win.chunks)

\* two chunks were returned, with ids 0 and 1
C16_Witness ==
    /\ cpc = "returned"
    /\ Len(win.chunks) = 2
    /\ win.chunks[1].chunk_id = 0
    /\ win.chunks[2].chunk_id = 1

(***************************************************************************)
(* C17: a limit that is zero or negative is rejected before any task is    *)
(* scheduled.  With max_parallel_extractions <= 0 or                       *)
(* max_parallel_verifications <= 0, process_transcript gets no further     *)
(* than raising: it creates no extraction task and no verification task,   *)
(* and no task ever waits for a permit that nobody holds.                  *)
(***************************************************************************)
C17_NonPositiveLimitRejected ==
    max_parallel_extractions <= 0 \/ max_parallel_verifications <= 0 =>
       /\ pc \in {"start", "raised"}
       /\ extraction_tasks = <<>>
       /\ verification_tasks = <<>>
       /\ ~ \E i \in DOMAIN extraction_tasks :
              extraction_tasks[i] = "waiting" /\ Holders(extraction_tasks) = {}
       /\ ~ \E j \in DOMAIN verification_tasks :
              verification_tasks[j] = "waiting"
                 /\ Holders(verification_tasks) = {}

(***************************************************************************)
(* C18: a chunk_size_seconds that is zero or negative is rejected before   *)
(* any chunk is built: chunk_transcript opens no chunk, closes none and    *)
(* does not return a list.                                                 *)
(***************************************************************************)
C18_NonPositiveSpanRejected ==
    chunk_size_seconds <= 0 =>
       /\ win.current_start = None
       /\ win.chunks = <<>>
       /\ cpc # "returned"

(***************************************************************************)
(* C19: for a transcript that is empty or has only blank texts,            *)
(* chunk_transcript returns no chunk, and process_transcript creates no    *)
(* task, never calls the extractor or the verifier, never reaches the      *)
(* verification stage and, when it returns, returns the empty list (it     *)
(* raises only where asyncio.Semaphore refuses a negative                  *)
(* max_parallel_extractions).                                              *)
(***************************************************************************)
IsBlank(text) == \A k \in DOMAIN text : text[k] = " "

AllBlank(transcript) ==
    \A n \in DOMAIN transcript : IsBlank(transcript[n].text)

C19_EmptyInput ==
    AllBlank(transcript_raw) =>
       /\ chunk_transcript(transcript_raw) = <<>>
       /\ chunks = <<>>
       /\ extraction_tasks = <<>>
       /\ extractor_calls = <<>>
       /\ verification_tasks = <<>>
       /\ verifier_calls = <<>>
       /\ pc # "verifying"
       /\ final_results = <<>>
       /\ pc = "raised" => max_parallel_extractions < 0

\* the call returned for the transcript whose only fragment is blank
C19_Witness ==
    /\ pc = "done"
    /\ transcript_raw = BlankStream
    /\ chunks = <<>>
    /\ final_results = <<>>

(***************************************************************************)
(* C20: when the extraction stage is over and has yielded no item (every   *)
(* extractor call returned no item or failed), process_transcript has      *)
(* returned the empty list without a verification stage: no verification   *)
(* semaphore, no verification task, no verifier call -- also when          *)
(* max_parallel_verifications is one asyncio.Semaphore would refuse.       *)
(***************************************************************************)
C20_VerificationSkipped ==
    /\ pc = "verifying" => ReturnedItems # <<>>
    /\ ExtractionDrained /\ ReturnedItems = <<>> =>
          /\ pc = "done"
          /\ all_claims = <<>>
          /\ semaphore_verify = NoSemaphore
          /\ verification_tasks = <<>>
          /\ verifier_calls = <<>>
          /\ final_results = <<>>
    /\ pc = "raised" /\ max_parallel_extractions >= 0 => ReturnedItems # <<>>

\* two chunks, one whose extractor call failed and one that yielded nothing
C20_Witness ==
    /\ pc = "done"
    /\ Len(chunks) = 2
    /\ extractor_calls[1].raised
    /\ extractor_calls[2] = CallReturned(<<>>)
    /\ max_parallel_verifications = 2
    /\ verifier_calls = <<>>
    /\ final_results = <<>>

(***************************************************************************)
(* A run in which one verifier call never returns: the call for the first  *)
(* item whose claim text is UntimedClaim's.  Every other step of the run   *)
(* is taken sooner or later (the event loop runs every task that is ready, *)
(* and every other collaborator call ends).                                *)
(***************************************************************************)
Hung(j) ==
    /\ all_claims[j][1].claim_text = UntimedClaim.claim_text
    /\ \A k \in 1..(j - 1) :
          all_claims[k][1].claim_text # UntimedClaim.claim_text

InitHung ==
    /\ Init
    /\ max_parallel_extractions >= 1
    /\ max_parallel_verifications >= 1

NextHung ==
    \/ Begin
    \/ \E i \in DOMAIN extraction_tasks : ExtractStart(i)
    \/ \E i \in DOMAIN extraction_tasks : ExtractResume(i)
    \/ \E i \in DOMAIN extraction_tasks : ExtractorReturns(i)
    \/ \E i \in DOMAIN extraction_tasks : ExtractorRaises(i)
    \/ CollectExtraction
    \/ \E j \in DOMAIN verification_tasks : VerifyStart(j)
    \/ \E j \in DOMAIN verification_tasks : VerifyResume(j)
    \/ \E j \in DOMAIN verification_tasks : ~Hung(j) /\ VerifierReturns(j)
    \/ \E j \in DOMAIN verification_tasks : ~Hung(j) /\ VerifierRaises(j)
    \/ CollectVerification

SpecHung == InitHung /\ [][NextHung]_vars /\ WF_vars(NextHung)

(***************************************************************************)
(* C21: a hung collaborator call cannot block the batch.  In a run where   *)
(* one verifier call never returns and all the others do,                  *)
(* process_transcript eventually returns, with the item of the hung call   *)
(* marked as failed and an entry for every other item.                     *)
(***************************************************************************)
ReturnedDespiteHang ==
    /\ pc = "done"
    /\ Len(final_results) = Len(all_claims)
    /\ \A j \in DOMAIN all_claims :
          Hung(j) => IsFailureMarker(final_results[j].verification_result)

C21_HungCallTimesOut == <>ReturnedDespiteHang

(***************************************************************************)
(* C22: determinism.  Take a run whose collaborators behaved as functions  *)
(* of their input: the extractor answered alike for chunks of the same     *)
(* text, the verifier alike for claims of the same text.  What the run     *)
(* returns, elapsed times left out, is then the list computed from the     *)
(* transcript, the configuration and those two functions alone, chunk by   *)
(* chunk and item by item in input order; so two such runs on the same     *)
(* input return the same items, verdicts, chunk ids and order, whatever    *)
(* the scheduling of their tasks.                                          *)
(***************************************************************************)
DeterministicCollaborators ==
    /\ \A i, k \in DOMAIN extractor_calls :
          extractor_calls[i].called /\ extractor_calls[k].called
             /\ chunks[i].text = chunks[k].text
          => extractor_calls[i] = extractor_calls[k]
    /\ \A j, l \in DOMAIN verifier_calls :
          verifier_calls[j].called /\ verifier_calls[l].called
             /\ all_claims[j][1].claim_text = all_claims[l][1].claim_text
          => verifier_calls[j] = verifier_calls[l]

\* the extractor as a function of the chunk text, the verifier as a function
\* of the claim text, read off the calls of the run
ExtractorOn(text) ==
    extractor_calls[CHOOSE i \in DOMAIN extractor_calls :
                       extractor_calls[i].called /\ chunks[i].text = text]

VerifierOn(text) ==
    verifier_calls[CHOOSE j \in DOMAIN verifier_calls :
                      /\ verifier_calls[j].called
                      /\ all_claims[j][1].claim_text = text]

\* the items of the chunks cs, in order, each with its timing and its chunk
RECURSIVE ExpectedItems(_)
ExpectedItems(cs) ==
    IF cs = <<>> THEN <<>>
    ELSE LET call == ExtractorOn(cs[1].text)
         IN  (IF call.raised THEN <<>>
              ELSE [k \in 1..Len(call.value) |->
                       [claim |-> BackfilledItem([raw |-> call.value[k],
                                                  chunk |-> cs[1]]),
                        chunk_id |-> cs[1].chunk_id]])
             \o ExpectedItems(Tail(cs))

ExpectedVerdict(call) ==
    IF call.raised THEN <<"Verification failed: ", call.err>>
    ELSE <<call.value>>

ExpectedResult ==
    LET items == ExpectedItems(chunk_transcript(transcript_raw))
    IN  [j \in 1..Len(items) |->
            [claim |-> items[j].claim,
             verification_result |->
                ExpectedVerdict(VerifierOn(items[j].claim.claim_text)),
             chunk_id |-> items[j].chunk_id]]

WithoutTimes(results) ==
    [j \in 1..Len(results) |->
        [claim |-> results[j].claim,
         verification_result |-> results[j].verification_result,
         chunk_id |-> results[j].chunk_id]]

C22_Determinism ==
    pc = "done" /\ DeterministicCollaborators =>
       WithoutTimes(final_results) = ExpectedResult

\* two chunks of the same text, two items each; the verifier fails on one of
\* the two claim texts; the elapsed times of the first two items differ
C22_Witness ==
    /\ pc = "done"
    /\ DeterministicCollaborators
    /\ max_parallel_extractions = 2
    /\ max_parallel_verifications = 2
    /\ Len(chunks) = 2
    /\ Len(final_results) = 4
    /\ FailedVerifications = {1, 3}
    /\ final_results[1].processing_time_s # final_results[3].processing_time_s

(***************************************************************************)
(* C23: two calls of process_transcript for different transcripts that run *)
(* interleaved on one AgentLoop do not interfere.  When a call has         *)
(* returned, its result is exactly what it returns when run alone with the *)
(* answers its own collaborator calls gave: the items its own extractor    *)
(* calls returned, in the order of its own chunks, each with the verdict   *)
(* of its own verifier call; every item of the result carries the call's   *)
(* own video and none is an item of the other call.  Elapsed times apart.  *)
(***************************************************************************)
\* the items the extractor calls ecalls returned for the chunks cs, in order
RECURSIVE AloneItems(_, _, _)
AloneItems(cs, ecalls, i) ==
    IF i > Len(cs) THEN <<>>
    ELSE (IF ecalls[i].called /\ ~ecalls[i].raised
          THEN [k \in 1..Len(ecalls[i].value) |->
                  [claim |-> BackfilledItem([raw |-> ecalls[i].value[k],
                                             chunk |-> cs[i]]),
                   chunk_id |-> cs[i].chunk_id]]
          ELSE <<>>) \o AloneItems(cs, ecalls, i + 1)

\* results is what a call on the chunks cs returns alone, given the answers
ReturnsAsAlone(results, cs, ecalls, vcalls) ==
    LET items == AloneItems(cs, ecalls, 1)
    IN  /\ Len(ecalls) = Len(cs)
        /\ Len(results) = Len(items)
        /\ items # <<>> => Len(vcalls) = Len(items)
        /\ \A j \in 1..Len(items) :
              /\ results[j].claim = items[j].claim
              /\ results[j].chunk_id = items[j].chunk_id
              /\ results[j].verification_result = ExpectedVerdict(vcalls[j])

ClaimsOf(results) == {results[j].claim : j \in 1..Len(results)}

C23_NoInterference ==
    /\ pc = "done" =>
          /\ ReturnsAsAlone(final_results, chunk_transcript(transcript_raw),
                            extractor_calls, verifier_calls)
          /\ \A c \in ClaimsOf(final_results) : c.video_id = video_id
    /\ other.pc = "done" =>
          /\ ReturnsAsAlone(other.final_results, OtherChunks,
                            other.extractor_calls, other.verifier_calls)
          /\ \A c \in ClaimsOf(other.final_results) :
                c.video_id = other.video_id
    /\ pc = "done" /\ other.pc = "done" =>
          ClaimsOf(final_results) \cap ClaimsOf(other.final_results) = {}

\* both calls have returned, two items each, with different verdicts for the
\* first item of each
C23_Witness ==
    /\ pc = "done"
    /\ other.pc = "done"
    /\ Len(final_results) = 2
    /\ Len(other.final_results) = 2
    /\ final_results[1].claim.claim_text = "q"
    /\ other.final_results[1].claim.claim_text = "s"
    /\ other.final_results[1].verification_result
          # final_results[1].verification_result

(***************************************************************************)
(* C24: strict staging.  Whenever the verification stage exists (its tasks *)
(* are created, or a verifier call was made), every chunk has its          *)
(* extraction task, every extraction task is done and every extractor call *)
(* has ended; and no step takes an extraction task from not done to done   *)
(* once the verification stage has begun.                                  *)
(***************************************************************************)
VerificationBegun ==
    \/ pc = "verifying"
    \/ verification_tasks # <<>>
    \/ \E j \in DOMAIN verifier_calls : verifier_calls[j].called

C24_StrictStaging ==
    VerificationBegun =>
       /\ Len(extraction_tasks) = Len(chunks)
       /\ \A i \in DOMAIN extraction_tasks :
             /\ extraction_tasks[i] = "done"
             /\ extractor_calls[i].called
             /\ extraction_results[i] # NotYet

\* a verifier call is in progress after two extraction tasks, one of which
\* had waited for the other's permit
C24_Witness ==
    /\ pc = "verifying"
    /\ max_parallel_extractions = 1
    /\ Len(chunks) = 2
    /\ semaphore_extract.value = 1
    /\ \E j \in DOMAIN verification_tasks : verification_tasks[j] = "running"

(***************************************************************************)
(* C25: the life cycle of an item.  An item enters verification as the     *)
(* extractor returned it, with its timing backfilled if it had none; its   *)
(* task only moves forward (pending, waiting, acquired, running, done);    *)
(* the verifier call is made when the task goes from running to done and   *)
(* at no other step, so once per item; a finished item has exactly one of  *)
(* the two outcomes (the verifier's verdict, or the failure marker when    *)
(* the call failed); and after that neither its call, its outcome nor its  *)
(* task state changes.                                                     *)
(***************************************************************************)
Rank(st) ==
    CASE st = "pending" -> 0
      [] st = "waiting" -> 1
      [] st = "acquired" -> 2
      [] st = "running" -> 3
      [] st = "done" -> 4

ItemStates ==
    pc \in {"verifying", "done"} =>
       /\ Len(verification_tasks) = Len(all_claims)
       /\ Len(all_claims) = Len(ReturnedItems)
       /\ \A j \in DOMAIN verification_tasks :
             /\ all_claims[j][1] = BackfilledItem(ReturnedItems[j])
             /\ verifier_calls[j].called <=> verification_tasks[j] = "done"
             /\ verification_tasks[j] # "done" => verified_claims[j] = NotYet
             /\ verification_tasks[j] = "done" =>
                   /\ ~verified_claims[j].raised
                   /\ verified_claims[j].value.claim = all_claims[j][1]
                   /\ IF verifier_calls[j].raised
                      THEN IsFailureMarker(
                              verified_claims[j].value.verification_result)
                      ELSE verified_claims[j].value.verification_result
                              \in {<<v>> : v \in Verdicts}

ItemSteps ==
    \A j \in DOMAIN verification_tasks :
       /\ j \in DOMAIN verification_tasks'
       /\ Rank(verification_tasks'[j]) >= Rank(verification_tasks[j])
       /\ verifier_calls[j].called =>
             /\ verifier_calls'[j] = verifier_calls[j]
             /\ verified_claims'[j] = verified_claims[j]
             /\ verification_tasks'[j] = "done"
       /\ ~verifier_calls[j].called /\ verifier_calls'[j].called =>
             /\ verification_tasks[j] = "running"
             /\ verification_tasks'[j] = "done"

C25_ItemLifeCycle == [](ItemStates) /\ [][ItemSteps]_vars

\* the run is over with one item verified and one item failed
C25_Witness ==
    /\ pc = "done"
    /\ Len(verification_tasks) = 2
    /\ verifier_calls[1] = CallReturned("FALSE")
    /\ verifier_calls[2].raised
    /\ final_results[1].verification_result = <<"FALSE">>
    /\ IsFailureMarker(final_results[2].verification_result)

(***************************************************************************)
(* C26: the extractor is called exactly once per chunk.  There is one      *)
(* extraction task per chunk of chunk_transcript, task i being for the     *)
(* i-th chunk; a task is done exactly when its extractor call was made;    *)
(* once the stage is over every chunk has had its call, whether or not     *)
(* other calls failed; and a call that was made is never made again.       *)
(***************************************************************************)
ExtractorCallStates ==
    /\ Started =>
          /\ chunks = chunk_transcript(transcript_raw)
          /\ Len(extraction_tasks) = Len(chunks)
          /\ Len(extractor_calls) = Len(chunks)
          /\ \A i \in DOMAIN extraction_tasks :
                /\ extractor_calls[i].called <=> extraction_tasks[i] = "done"
                /\ extraction_tasks[i] = "done" =>
                      extraction_results[i].value[2] = chunks[i].chunk_id
    /\ ExtractionDrained =>
          \A i \in DOMAIN chunks : extractor_calls[i].called

ExtractorCallSteps ==
    \A i \in DOMAIN extractor_calls :
       /\ i \in DOMAIN extractor_calls'
       /\ extractor_calls[i].called =>
             /\ extractor_calls'[i] = extractor_calls[i]
             /\ extraction_tasks'[i] = "done"
       /\ ~extractor_calls[i].called /\ extractor_calls'[i].called =>
             extraction_tasks[i] = "running"

C26_ExtractorOncePerChunk ==
    [](ExtractorCallStates) /\ [][ExtractorCallSteps]_vars

\* both chunks had their call although the first call failed, under a limit
\* that made the second task wait
C26_Witness ==
    /\ pc = "done"
    /\ max_parallel_extractions = 1
    /\ Len(chunks) = 2
    /\ extractor_calls[1].raised
    /\ extractor_calls[2] = CallReturned(<<TimedClaim>>)
    /\ Len(final_results) = 1

(***************************************************************************)
(* C27: traceability.  Every item sent to verification and every           *)
(* VerifiedClaim returned has the chunk_id of the chunk whose extractor    *)
(* call returned it: that chunk exists, its call did not fail, and the     *)
(* claim's text is one the call returned.                                  *)
(***************************************************************************)
TracedTo(claim, id) ==
    \E i \in DOMAIN chunks :
       /\ chunks[i].chunk_id = id
       /\ extractor_calls[i].called
       /\ ~extractor_calls[i].raised
       /\ \E k \in DOMAIN extractor_calls[i].value :
             extractor_calls[i].value[k].claim_text = claim.claim_text

C27_Traceability ==
    /\ ExtractionDrained =>
          /\ Len(all_claims) = Len(ReturnedItems)
          /\ \A j \in DOMAIN all_claims :
                /\ all_claims[j][2] = ReturnedItems[j].chunk.chunk_id
                /\ TracedTo(all_claims[j][1], all_claims[j][2])
    /\ pc = "done" =>
          /\ Len(final_results) = Len(ReturnedItems)
          /\ \A j \in DOMAIN final_results :
                /\ final_results[j].chunk_id = ReturnedItems[j].chunk.chunk_id
                /\ TracedTo(final_results[j].claim, final_results[j].chunk_id)

\* the only returned item comes from the second chunk, whose task could
\* finish before or after the first chunk's failing one
C27_Witness ==
    /\ pc = "done"
    /\ max_parallel_extractions = 2
    /\ Len(chunks) = 2
    /\ extractor_calls[1].raised
    /\ extractor_calls[2] = CallReturned(<<UntimedClaim>>)
    /\ Len(final_results) = 1
    /\ final_results[1].chunk_id = 1

(***************************************************************************)
(* C28: after the extraction stage total_claims_by_chunk has exactly one   *)
(* entry per chunk id, the entry of a chunk is the number of items         *)
(* collected with that chunk_id (0 for a chunk whose call failed), and the *)
(* entries add up to the number of items sent to verification.             *)
(***************************************************************************)
CollectedWith(id) == SelectSeq(all_claims, LAMBDA t : t[2] = id)

\* total_claims_by_chunk[0] + ... + total_claims_by_chunk[n - 1]
RECURSIVE SumOfCounts(_)
SumOfCounts(n) ==
    IF n = 0 THEN 0 ELSE total_claims_by_chunk[n - 1] + SumOfCounts(n - 1)

C28_PerChunkCounts ==
    ExtractionDrained =>
       /\ DOMAIN total_claims_by_chunk
             = {chunks[i].chunk_id : i \in DOMAIN chunks}
       /\ DOMAIN total_claims_by_chunk = 0..(Len(chunks) - 1)
       /\ \A i \in DOMAIN chunks :
             /\ total_claims_by_chunk[chunks[i].chunk_id]
                   = Len(CollectedWith(chunks[i].chunk_id))
             /\ extractor_calls[i].raised =>
                   total_claims_by_chunk[chunks[i].chunk_id] = 0
       /\ SumOfCounts(Len(chunks)) = Len(all_claims)
       /\ pc = "verifying" => Len(verification_tasks) = Len(all_claims)

\* counts 0 (failed chunk) and 2, two items sent to verification
C28_Witness ==
    /\ pc = "verifying"
    /\ Len(chunks) = 2
    /\ extractor_calls[1].raised
    /\ total_claims_by_chunk[0] = 0
    /\ total_claims_by_chunk[1] = 2
    /\ Len(verification_tasks) = 2

(***************************************************************************)
(* C29: within a stage the tasks take their permit, and enter the          *)
(* collaborator call, in input order: when task j of a stage holds or has  *)
(* held a permit, so does every task i < j of that stage, and when task j  *)
(* has entered the call, so has every task i < j.  The order in which they *)
(* finish is free.                                                         *)
(***************************************************************************)
HasPermit(tasks, i) == tasks[i] \in {"acquired", "running", "done"}
HasEntered(tasks, i) == tasks[i] \in {"running", "done"}

InInputOrder(tasks) ==
    \A i, j \in DOMAIN tasks :
       i < j => /\ HasPermit(tasks, j) => HasPermit(tasks, i)
                /\ HasEntered(tasks, j) => HasEntered(tasks, i)

C29_StartInInputOrder ==
    /\ InInputOrder(extraction_tasks)
    /\ InInputOrder(verification_tasks)

\* four items under limit 2: the second call has returned, the first has
\* not, and the third item has entered the call while the fourth waits
C29_Witness ==
    /\ pc = "verifying"
    /\ max_parallel_verifications = 2
    /\ Len(verification_tasks) = 4
    /\ verification_tasks[1] = "running"
    /\ verification_tasks[2] = "done"
    /\ verification_tasks[3] = "running"
    /\ verification_tasks[4] = "waiting"

SameButTiming(a, b) ==
    /\ a.claim_text = b.claim_text
    /\ a.video_id = b.video_id
    /\ a.speaker = b.speaker
    /\ a.importance_score = b.importance_score

C31_BackfillFrame ==
    \A i \in DOMAIN extraction_results :
       extraction_results[i] # NotYet /\ ~extractor_calls[i].raised =>
          LET given == extractor_calls[i].value
              got == extraction_results[i].value[1]
          IN  /\ Len(got) = Len(given)
              /\ \A k \in 1..Len(given) :
                    /\ SameButTiming(got[k], given[k])
                    /\ ~IsSentinel(given[k]) => got[k] = given[k]

\* a chunk that starts after 0 s whose extractor gave an item starting at 0 s
\* with timing and then an item without timing: the first is handed on as
\* given, the second has the chunk's bounds
C31_Witness ==
    \E i \in DOMAIN extraction_results :
       /\ extraction_results[i] # NotYet
       /\ chunks[i].start_s > 0
       /\ extractor_calls[i] = CallReturned(<<EarlyClaim, UntimedClaim>>)
       /\ extraction_results[i].value[1][1] = EarlyClaim
       /\ extraction_results[i].value[1][2].start_s = chunks[i].start_s
       /\ extraction_results[i].value[1][2].end_s = chunks[i].end_s

(***************************************************************************)
(* Runs under fair scheduling with collaborators whose every call ends:    *)
(* the event loop runs every task that is ready, and every extractor and   *)
(* verifier call returns or raises.  Both limits are at least 1.           *)
(***************************************************************************)
SpecFair == InitHung /\ [][Next]_vars /\ WF_vars(Next)

(***************************************************************************)
(* C32: termination.  With both limits at least 1, collaborators whose     *)
(* every call returns or raises, and fair scheduling, process_transcript   *)
(* eventually returns; and when it has returned every permit is back: each *)
(* limiter that was created has its full value and no waiter, and no task  *)
(* is left waiting or running.                                             *)
(***************************************************************************)
PermitsFree ==
    /\ semaphore_extract = Semaphore(max_parallel_extractions)
    /\ \A i \in DOMAIN extraction_tasks : extraction_tasks[i] = "done"
    /\ all_claims # <<>> =>
          /\ semaphore_verify = Semaphore(max_parallel_verifications)
          /\ \A j \in DOMAIN verification_tasks :
                verification_tasks[j] = "done"

C32_Termination == <>(pc = "done") /\ [](pc = "done" => PermitsFree)

\* returned with limits of 1, after an extractor call and a verifier call
\* that raised and tasks that had to wait for a permit
C32_Witness ==
    /\ pc = "done"
    /\ PermitsFree
    /\ max_parallel_extractions = 1
    /\ max_parallel_verifications = 1
    /\ Len(chunks) = 2
    /\ FailedExtractions = {1}
    /\ Len(all_claims) = 2
    /\ FailedVerifications = {1}

(***************************************************************************)
(* C33: chunk span bound.  Fragment durations are not negative.  For every *)
(* returned chunk, end_s - start_s is at most the larger of                *)
(* chunk_size_seconds and the duration of the chunk's first fragment: a    *)
(* chunk is longer than the target span only if its first fragment is.     *)
(***************************************************************************)
FirstOf(S) == CHOOSE n \in S : \A m \in S : n <= m

C33_ChunkSpanBound ==
    cpc = "returned" =>
       \A k \in DOMAIN win.chunks :
          LET S == FragmentsOf(win.chunks[k].chunk_id)
              first == transcript_raw[FirstOf(S)]
          IN  /\ first.duration >= 0
              /\ win.chunks[k].end_s - win.chunks[k].start_s
                    <= Max(chunk_size_seconds, first.duration)

\* span 1: a chunk of 2 s made of its first fragment alone, then a chunk
\* that is exactly 1 s long
C33_Witness ==
    /\ cpc = "returned"
    /\ chunk_size_seconds = 1
    /\ Len(win.chunks) = 2
    /\ win.chunks[1].end_s - win.chunks[1].start_s = 2
    /\ FragmentsOf(0) = {1}
    /\ win.chunks[2].end_s - win.chunks[2].start_s = 1

(***************************************************************************)
(* C34: the three chunkers agree.  For the stream and the chunk size of    *)
(* the call, api_server.chunk_transcript and                               *)
(* test_video_claims.chunk_transcript return as many chunks as             *)
(* AgentLoop.chunk_transcript, and every fragment that is not empty after  *)
(* trimming has its line in the chunk of the same index as the chunk       *)
(* AgentLoop.chunk_transcript puts it in.                                  *)
(***************************************************************************)
\* the line number the line-numbering chunkers give fragment n
LineNumberOf(n) ==
    Len(NonEmptyFragments(SubSeq(transcript_raw, 1, n)))

\* the index of the chunk of line_chunks that has the line of fragment n
LineChunkOf(line_chunks, n) ==
    {k \in DOMAIN line_chunks :
        \E l \in DOMAIN line_chunks[k] :
            line_chunks[k][l].line_num = LineNumberOf(n)}

\* the index of the AgentLoop chunk that has fragment n
WindowChunkOf(n) ==
    {k \in DOMAIN win.chunks : win.chunks[k].chunk_id = ChunkIdAfter(n)}

AgreesWithWindow(line_chunks) ==
    /\ Len(line_chunks) = Len(win.chunks)
    /\ \A n \in DOMAIN transcript_raw :
          Strip(transcript_raw[n].text) # <<>> =>
             /\ Cardinality(WindowChunkOf(n)) = 1
             /\ LineChunkOf(line_chunks, n) = WindowChunkOf(n)

C34_ChunkersAgree ==
    cpc = "returned" =>
       /\ AgreesWithWindow(api_chunk_transcript(transcript_raw,
                                                chunk_size_seconds))
       /\ AgreesWithWindow(test_chunk_transcript(transcript_raw,
                                                 chunk_size_seconds))

\* two fragments that do not fit one chunk of 1 s: each chunker returns two
\* chunks, and the second fragment (line 2) is in the second
C34_Witness ==
    /\ cpc = "returned"
    /\ chunk_size_seconds = 1
    /\ Len(win.chunks) = 2
    /\ FragmentsOf(1) = {2}
    /\ Len(api_chunk_transcript(transcript_raw, chunk_size_seconds)) = 2
    /\ api_chunk_transcript(transcript_raw, chunk_size_seconds)[2][1].line_num
          = 2
    /\ Len(test_chunk_transcript(transcript_raw, chunk_size_seconds)) = 2
    /\ test_chunk_transcript(transcript_raw, chunk_size_seconds)[2][1].line_num
          = 2

(***************************************************************************)
(* C37: the session store of ConnectionManager.  After any sequence of     *)
(* connect, create_session, update_session and disconnect calls, an id is  *)
(* in processing_sessions exactly when create_session was called for it    *)
(* and disconnect was not called for it since.  Each call leaves the       *)
(* entries of all other ids as they were; update_session adds no id;       *)
(* disconnect(id) leaves neither a connection nor a session of id, and     *)
(* changes nothing when id has neither; connect and create_session leave   *)
(* the other dict alone.                                                   *)
(***************************************************************************)
\* dicts d and e agree on every id but session_id
SameElsewhere(d, e, session_id) ==
    /\ (DOMAIN d) \ {session_id} = (DOMAIN e) \ {session_id}
    /\ \A x \in (DOMAIN d) \ {session_id} : d[x] = e[x]

ManagerStep ==
    LET id == last_call'.session_id
        op == last_call'.op
    IN  /\ SameElsewhere(active_connections, active_connections', id)
        /\ SameElsewhere(processing_sessions, processing_sessions', id)
        /\ op = "update_session" =>
              /\ DOMAIN processing_sessions' = DOMAIN processing_sessions
              /\ active_connections' = active_connections
        /\ op = "disconnect" =>
              /\ id \notin DOMAIN active_connections'
              /\ id \notin DOMAIN processing_sessions'
              /\ (/\ id \notin DOMAIN active_connections
                  /\ id \notin DOMAIN processing_sessions)
                 => /\ active_connections' = active_connections
                    /\ processing_sessions' = processing_sessions
        /\ op = "connect" => processing_sessions' = processing_sessions
        /\ op = "create_session" => active_connections' = active_connections

C37_SessionStore ==
    /\ [](DOMAIN processing_sessions = created)
    /\ [][ManagerStep]_vars

\* s2 has a connection and a session that was updated to an error status;
\* s1 has neither, and the last call, an update_session for s1, created none
C37_Witness ==
    /\ DOMAIN processing_sessions = {"s2"}
    /\ processing_sessions["s2"].status = "error"
    /\ DOMAIN active_connections = {"s2"}
    /\ last_call = [op |-> "update_session", session_id |-> "s1"]

(***************************************************************************)
(* C35: in process_video_pipeline the 'complete' message comes after every *)
(* background verification.  On a session's websocket no 'claim_verified'  *)
(* message follows a 'complete' message, and the verified_claims number of *)
(* a 'complete' message is the number of 'claim_verified' messages sent.   *)
(***************************************************************************)
ClaimVerifiedAt(out) == {l \in DOMAIN out : out[l].type = "claim_verified"}

C35_CompleteAfterVerifications ==
    \A session_id \in SessionIds :
       LET out == outbox[session_id]
       IN  \A k \in DOMAIN out :
              out[k].type = "complete" =>
                 /\ \A l \in ClaimVerifiedAt(out) : l < k
                 /\ out[k].body.verified_claims
                       = Cardinality(ClaimVerifiedAt(out))

(***************************************************************************)
(* C36: the stored session status follows the pipeline.  Once the pipeline *)
(* of a session has sent 'complete' or 'error' and the session still       *)
(* exists, the status GET /session/{session_id} returns is no longer       *)
(* 'initializing'.                                                         *)
(***************************************************************************)
PipelineOver(session_id) ==
    \E k \in DOMAIN outbox[session_id] :
        outbox[session_id][k].type \in {"complete", "error"}

C36_StatusFollowsPipeline ==
    \A session_id \in SessionIds :
       /\ PipelineOver(session_id)
       /\ get_session(processing_sessions, session_id) # None
       => Val(get_session(processing_sessions, session_id)).status
             # "initializing"

(***************************************************************************)
(* C40: verify_single_claim maps the verdict label in the first 100        *)
(* characters of the verification text to a status and a score: TRUE to    *)
(* 'verified' (8.5), FALSE to 'false' (2.0), MISLEADING to 'misleading'    *)
(* (4.0), PARTIALLY TRUE to 'partial' (6.0), none of them to 'unverified'  *)
(* (5.0).  Every 'claim_verified' message carries the status and score of  *)
(* the label of its text.                                                  *)
(***************************************************************************)
\* the label of a text: PARTIALLY TRUE is a label of its own
VerdictLabel(text) ==
    LET head == Slice(Upper(text), 100)
    IN  IF In(<<"P", "A", "R", "T", "I", "A", "L", "L", "Y", " ", "T", "R", "U", "E">>, head) THEN "PARTIALLY TRUE"
        ELSE IF In(<<"T", "R", "U", "E">>, head) THEN "TRUE"
        ELSE IF In(<<"F", "A", "L", "S", "E">>, head) THEN "FALSE"
        ELSE IF In(<<"M", "I", "S", "L", "E", "A", "D", "I", "N", "G">>, head) THEN "MISLEADING"
        ELSE "none"

StatusOfLabel(label) ==
    CASE label = "TRUE" ->
            [verification_status |-> "verified", verification_score |-> 85]
      [] label = "FALSE" ->
            [verification_status |-> "false", verification_score |-> 20]
      [] label = "MISLEADING" ->
            [verification_status |-> "misleading", verification_score |-> 40]
      [] label = "PARTIALLY TRUE" ->
            [verification_status |-> "partial", verification_score |-> 60]
      [] OTHER ->
            [verification_status |-> "unverified", verification_score |-> 50]

C40_VerdictMapping ==
    \A session_id \in SessionIds :
       \A k \in ClaimVerifiedAt(outbox[session_id]) :
          LET body == outbox[session_id][k].body
              expected == StatusOfLabel(VerdictLabel(body.verification_summary))
          IN  /\ body.verification_status = expected.verification_status
              /\ body.verification_score = expected.verification_score

(***************************************************************************)
(* C38: verify_claim starts all five specialists and calls the             *)
(* synthesising orchestrator exactly once, only after all five have        *)
(* finished.  A specialist that raised has an "Error: ..." entry at its    *)
(* own position of agent_results and every other specialist has its own    *)
(* result at its own position; a step in which a specialist ends leaves    *)
(* the other four as they were; and the synthesis is given the findings of *)
(* the specialists that did not fail, each under its own name.             *)
(***************************************************************************)
AllFinished == \A a \in DOMAIN specialists : specialists[a].called

SynthesisAfterAll ==
    /\ synthesis.calls <= 1
    /\ vpc \in {"gathering", "synthesising", "returned"}
       => Len(specialists) = 5
    /\ vpc = "returned" => synthesis.calls = 1
    /\ synthesis.calls = 1 =>
          /\ AllFinished
          /\ Len(agent_results) = 5
          /\ \A a \in 1..5 :
                /\ specialists[a].raised
                   => agent_results[a] = <<"Error: ", specialists[a].err>>
                /\ ~specialists[a].raised
                   => agent_results[a] = specialists[a].value
          /\ \A a \in 1..5 :
                specialists[a] = CallReturned(<<"finding">>)
                <=> \E f \in DOMAIN synthesis.findings :
                       synthesis.findings[f] = <<agent_names[a], <<"finding">>>>

SpecialistStep ==
    \A a \in DOMAIN specialists :
       specialists[a].called =>
          /\ a \in DOMAIN specialists'
          /\ specialists'[a] = specialists[a]

SameText(a, b) ==
    Strip(Lower(a.claim_text)) = Strip(Lower(b.claim_text))

\* the claims of the list that have no earlier claim of the same text
FirstOccurrences(claims) ==
    LET first == {n \in DOMAIN claims :
                     \A m \in 1..(n - 1) : ~SameText(claims[m], claims[n])}
        RECURSIVE Pick(_)
        Pick(n) == IF n > Len(claims) THEN <<>>
                   ELSE (IF n \in first THEN <<claims[n]>> ELSE <<>>)
                        \o Pick(n + 1)
    IN  Pick(1)

C39_Deduplication ==
    apc = "returned" =>
       /\ \A k, l \in DOMAIN unique_claims :
             k # l => ~SameText(unique_claims[k], unique_claims[l])
       /\ unique_claims = FirstOccurrences(chain_result)
       /\ UniqueLoop(unique_claims, {}, <<>>) = unique_claims

\* the chain gave "A" said at 2 s, then "b", then " a" said at 1 s: the first
\* and the second are returned
C39_Witness ==
    /\ apc = "returned"
    /\ Len(chain_result) = 3
    /\ chain_result[1].claim_text = <<"A">>
    /\ chain_result[1].start_s = 2
    /\ chain_result[2].claim_text = <<"b">>
    /\ chain_result[3].claim_text = <<" ", "a">>
    /\ chain_result[3].start_s = 1
    /\ unique_claims = <<chain_result[1], chain_result[2]>>

====
